---- MODULE Spec2Model ----
(***************************************************************************)
(* AnimePixels API: category validator, pagination parameters, the public  *)
(* media router, the admin router (token middleware, bulk upload) and the  *)
(* media table they share.                                                 *)
(*                                                                         *)
(* Strings are sequences of one-character strings, so that lower-casing,   *)
(* whitespace replacement, trimming, parseInt, startsWith and LIKE are     *)
(* computed the way the code computes them.                                *)
(***************************************************************************)
EXTENDS Integers, Sequences, FiniteSets, TLC

VARIABLES
  probe,    \* harness of the pure helpers: input, position, results
  media,    \* the media table: sequence of rows in insertion order
  reqs,     \* the HTTP requests in flight, one record per slot
  incs,     \* the detached incrementViews() call of each request slot
  logs,     \* what the logger and the process have recorded
  cdn,      \* the CDN client: whether it is configured, the uploads started
  proc      \* the process: environment, connection pool, databaseInitialized

vars == <<probe, media, reqs, incs, logs, cdn, proc>>
svcVars == <<media, reqs, incs, logs, cdn, proc>>

\* ------------------------------------------------------------------ bounds
MaxWsRun == 2
MaxPad == 1
MaxParamLen == 3
MaxInitRows == 3
MaxViewRows == 2
MaxReq == 2
MaxFiles == 3

\* ----------------------------------------------------------------- strings
LowerLetters == <<"a","b","c","d","e","f","g","h","i","j","k","l","m","n","o","p","q","r","s","t","u","v","w","x","y","z">>
UpperLetters == <<"A","B","C","D","E","F","G","H","I","J","K","L","M","N","O","P","Q","R","S","T","U","V","W","X","Y","Z">>

\* /\s/ of the regular expression, restricted to the characters of the model.
Whitespace == {" ", "\t"}

Digits == <<"0","1","2","3","4","5","6","7","8","9">>

IndexIn(c, seq) == IF \E i \in 1..Len(seq) : seq[i] = c
                   THEN CHOOSE i \in 1..Len(seq) : seq[i] = c
                   ELSE 0

LowerChar(c) == IF IndexIn(c, UpperLetters) > 0 THEN LowerLetters[IndexIn(c, UpperLetters)] ELSE c
UpperChar(c) == IF IndexIn(c, LowerLetters) > 0 THEN UpperLetters[IndexIn(c, LowerLetters)] ELSE c

\* String.prototype.toLowerCase
toLowerCase(s) == [i \in 1..Len(s) |-> LowerChar(s[i])]

RECURSIVE DropLeadingWs(_)
DropLeadingWs(s) == IF s # <<>> /\ s[1] \in Whitespace THEN DropLeadingWs(Tail(s)) ELSE s

RECURSIVE DropTrailingWs(_)
DropTrailingWs(s) == IF s # <<>> /\ s[Len(s)] \in Whitespace
                     THEN DropTrailingWs(SubSeq(s, 1, Len(s) - 1)) ELSE s

\* String.prototype.trim
trim(s) == DropTrailingWs(DropLeadingWs(s))

\* String.prototype.startsWith
startsWith(s, p) == Len(s) >= Len(p) /\ SubSeq(s, 1, Len(p)) = p

\* String.prototype.includes
includes(s, p) == \E i \in 0..(Len(s) - Len(p)) : SubSeq(s, i + 1, i + Len(p)) = p

\* s.replace(/\s+/g, '_'): every maximal run of whitespace becomes one underscore.
RECURSIVE ReplaceWsRuns(_)
ReplaceWsRuns(s) ==
  IF s = <<>> THEN <<>>
  ELSE IF s[1] \in Whitespace THEN <<"_">> \o ReplaceWsRuns(DropLeadingWs(s))
  ELSE <<s[1]>> \o ReplaceWsRuns(Tail(s))

RECURSIVE Concat(_)
Concat(ss) == IF ss = <<>> THEN <<>> ELSE Head(ss) \o Concat(Tail(ss))

Min(a, b) == IF a < b THEN a ELSE b
Max(a, b) == IF a > b THEN a ELSE b

\* --------------------------------------------------------------- categories
ALLOWED_CATEGORIES == {
    <<"n","a","r","u","t","o">>,
    <<"o","n","e","_","p","i","e","c","e">>,
    <<"d","e","m","o","n","_","s","l","a","y","e","r">>,
    <<"j","u","j","u","t","s","u","_","k","a","i","s","e","n">>,
    <<"a","t","t","a","c","k","_","o","n","_","t","i","t","a","n">>,
    <<"d","r","a","g","o","n","_","b","a","l","l">>,
    <<"m","y","_","h","e","r","o","_","a","c","a","d","e","m","i","a">>,
    <<"p","o","k","e","m","o","n">>,
    <<"s","p","y","_","x","_","f","a","m","i","l","y">>,
    <<"s","o","l","o","_","l","e","v","e","l","i","n","g">>,
    <<"n","a","t","u","r","e">>,
    <<"p","o","p","u","l","a","r","_","a","n","i","m","e">>
  }

InvalidCategoryText == <<"I","n","v","a","l","i","d"," ","c","a","t","e","g","o","r","y">>

\* new Error(`Invalid category: ${category}`).message
InvalidCategoryMessage(category) == InvalidCategoryText \o <<":", " ">> \o category

\* A variant of normalize that replaces each whitespace character on its own.
normalizeEachWs(category) ==
  [i \in 1..Len(category) |->
     IF category[i] \in Whitespace THEN "_" ELSE LowerChar(category[i])]

\* const normalized = category.toLowerCase().replace(/\s+/g, '_')
normalize(category) == ReplaceWsRuns(toLowerCase(category))

\* validateCategory: the normalized value, or the Error it throws.
validateCategory(category) ==
  LET normalized == normalize(category)
  IN IF normalized \in ALLOWED_CATEGORIES
     THEN [ok |-> TRUE, value |-> normalized]
     ELSE [ok |-> FALSE, message |-> InvalidCategoryMessage(category)]

\* ------------------------------------------------------- category variants
NotAllowedBases == {
    <<"b","l","e","a","c","h">>,
    <<"n","a","r","u","t","o","s">>,
    <<"o","n","e","p","i","e","c","e">>,
    <<>>
  }

CaseModes == {"lower", "upper", "first", "alternate"}

ApplyCase(s, mode) ==
  [i \in 1..Len(s) |->
     CASE mode = "lower" -> s[i]
       [] mode = "upper" -> UpperChar(s[i])
       [] mode = "first" -> IF i = 1 THEN UpperChar(s[i]) ELSE s[i]
       [] OTHER -> IF i % 2 = 0 THEN UpperChar(s[i]) ELSE s[i]]

\* The non-empty whitespace runs of at most n characters.
RECURSIVE WsRuns(_)
WsRuns(n) == IF n = 0 THEN {}
             ELSE {<<w>> : w \in Whitespace}
                  \cup {r \o <<w>> : r \in WsRuns(n - 1), w \in Whitespace}

\* The whitespace paddings of at most n characters, the empty one included.
Pads(n) == {<<>>} \cup WsRuns(n)

\* What stands where the canonical form has an underscore.
Separators == {<<"_">>} \cup WsRuns(MaxWsRun)

ReplaceUnderscores(s, sep) == Concat([i \in 1..Len(s) |-> IF s[i] = "_" THEN sep ELSE <<s[i]>>])

Variant(base, mode, sep, lead, trail) == lead \o ReplaceUnderscores(ApplyCase(base, mode), sep) \o trail

CategoryProbes ==
  {[base |-> b, mode |-> m, sep |-> s, lead |-> l, trail |-> t,
    in |-> Variant(b, m, s, l, t), pc |-> "start", out |-> <<>>, again |-> <<>>] :
     b \in ALLOWED_CATEGORIES \cup NotAllowedBases, m \in CaseModes,
     s \in Separators, l \in Pads(MaxPad), t \in Pads(MaxPad)}

\* The process as it starts: IS_PRODUCTION, whether DATABASE_URL is set, no
\* pool, databaseInitialized false, no connection checked out by any of the n
\* request slots. pools, inits and creates count the pools created and the
\* calls of initializeDatabase and createTables.
ColdProcess(production, url, n) ==
  [production |-> production, url |-> url, pool |-> FALSE, databaseInitialized |-> FALSE,
   pools |-> 0, inits |-> 0, creates |-> 0, held |-> [i \in 1..n |-> 0]]

\* The process after initializeDatabaseOnce has completed.
WarmProcess(production, n) ==
  [ColdProcess(production, TRUE, n) EXCEPT !.pool = TRUE, !.databaseInitialized = TRUE,
                                           !.pools = 1, !.inits = 1, !.creates = 1]

ServiceIdle ==
  /\ proc = WarmProcess(TRUE, 0)
  /\ media = <<>>
  /\ reqs = <<>>
  /\ incs = <<>>
  /\ logs = [warn |-> 0, error |-> 0, unhandled |-> 0]
  /\ cdn = [configured |-> TRUE, uploads |-> <<>>]

InitCategory == probe \in CategoryProbes /\ ServiceIdle

\* validateCategory(x)
Validate ==
  /\ probe.pc = "start"
  /\ probe' = [probe EXCEPT !.pc = "validated", !.out = validateCategory(probe.in)]
  /\ UNCHANGED svcVars

\* validateCategory(validateCategory(x)), when the first call returned
ValidateAgain ==
  /\ probe.pc = "validated"
  /\ probe.out.ok
  /\ probe' = [probe EXCEPT !.pc = "done", !.again = validateCategory(probe.out.value)]
  /\ UNCHANGED svcVars

NextCategory == Validate \/ ValidateAgain

SpecCategory == InitCategory /\ [][NextCategory]_vars

\* C9 (as amended): validateCategory is idempotent on what it accepts and returns
\* a member of the allow-list; every variant of an allowed category obtained by
\* changing letter case and writing a whitespace run for each underscore, with no
\* whitespace before or after, is accepted and yields that category; the same
\* variants with leading or trailing whitespace are rejected; and an input is
\* rejected, with an 'Invalid category' error naming it, exactly when its normal
\* form is not in the allow-list.
C9_Canonicalises ==
  probe.pc \in {"validated", "done"} =>
    /\ probe.out.ok => probe.out.value \in ALLOWED_CATEGORIES
    /\ (probe.base \in ALLOWED_CATEGORIES /\ probe.lead = <<>> /\ probe.trail = <<>>)
         => probe.out = [ok |-> TRUE, value |-> probe.base]
    /\ (probe.base \in ALLOWED_CATEGORIES /\ (probe.lead # <<>> \/ probe.trail # <<>>))
         => ~probe.out.ok
    /\ ~probe.out.ok <=> ReplaceWsRuns(toLowerCase(probe.in)) \notin ALLOWED_CATEGORIES
    /\ ~probe.out.ok => probe.out.message = InvalidCategoryText \o <<":", " ">> \o probe.in
    /\ probe.pc = "done" => probe.again = probe.out

\* C9 witness: an upper/lower mixed variant with a two-character whitespace run
\* was accepted and validated a second time.
C9_Witness ==
  /\ probe.pc = "done"
  /\ probe.mode = "alternate"
  /\ Len(probe.sep) = 2
  /\ probe.in # probe.base
  /\ probe.out.ok
  /\ probe.again = probe.out

\* C9 as stated: every mixed-case or whitespace variant of an allowed category,
\* leading and trailing whitespace included, is accepted with the canonical value.
C9_AsStated ==
  (probe.pc \in {"validated", "done"} /\ probe.base \in ALLOWED_CATEGORIES)
    => probe.out = [ok |-> TRUE, value |-> probe.base]

\* ------------------------------------------------------ pagination helpers
DEFAULT_LIMIT == 50
MAX_LIMIT == 200
SEARCH_LIMIT == 100

\* A query or path parameter: absent (undefined) or a string.
Absent == [present |-> FALSE, text |-> <<>>]
Str(s) == [present |-> TRUE, text |-> s]

HexLetters == <<"a","b","c","d","e","f">>

\* The value of c as a digit of the radix, or -1.
DigitValue(c, radix) ==
  LET d == IndexIn(c, Digits)
      h == IndexIn(LowerChar(c), HexLetters)
  IN IF d > 0 THEN d - 1
     ELSE IF radix = 16 /\ h > 0 THEN 9 + h
     ELSE -1

RECURSIVE DigitPrefix(_, _)
DigitPrefix(s, radix) ==
  IF s = <<>> \/ DigitValue(s[1], radix) < 0 THEN <<>>
  ELSE <<s[1]>> \o DigitPrefix(Tail(s), radix)

RECURSIVE NumberOf(_, _)
NumberOf(ds, radix) ==
  IF ds = <<>> THEN 0
  ELSE NumberOf(SubSeq(ds, 1, Len(ds) - 1), radix) * radix + DigitValue(ds[Len(ds)], radix)

NaN == [nan |-> TRUE, n |-> 0]

\* parseInt(x): leading whitespace skipped, one sign, a 0x prefix selecting
\* radix 16, then the longest prefix of digits; NaN when there is none.
parseInt(x) ==
  IF ~x.present THEN NaN
  ELSE
    LET s0 == DropLeadingWs(x.text)
        signed == s0 # <<>> /\ s0[1] \in {"-", "+"}
        neg == s0 # <<>> /\ s0[1] = "-"
        s1 == IF signed THEN Tail(s0) ELSE s0
        hex == Len(s1) >= 2 /\ s1[1] = "0" /\ s1[2] \in {"x", "X"}
        radix == IF hex THEN 16 ELSE 10
        s2 == IF hex THEN SubSeq(s1, 3, Len(s1)) ELSE s1
        ds == DigitPrefix(s2, radix)
    IN IF ds = <<>> THEN NaN
       ELSE [nan |-> FALSE, n |-> IF neg THEN 0 - NumberOf(ds, radix) ELSE NumberOf(ds, radix)]

\* parseInt(p) || dflt: NaN and 0 are falsy.
OrDefault(p, dflt) == IF p.nan \/ p.n = 0 THEN dflt ELSE p.n

\* A variant of getLimit without the lower clamp.
getLimitNoFloor(limitParam) == Min(OrDefault(parseInt(limitParam), DEFAULT_LIMIT), MAX_LIMIT)

getLimit(limitParam) ==
  LET limit == OrDefault(parseInt(limitParam), DEFAULT_LIMIT)
  IN Min(Max(1, limit), MAX_LIMIT)

getOffset(offsetParam) ==
  LET offset == OrDefault(parseInt(offsetParam), 0)
  IN Max(0, offset)

\* Math.min(limit, SEARCH_LIMIT) of the search handlers
searchLimit(limit) == Min(limit, SEARCH_LIMIT)

ParamChars == {"0", "1", "2", "9", "-", "a", "x", " "}

RECURSIVE Texts(_, _)
Texts(chars, n) == IF n = 0 THEN {<<>>}
                   ELSE Texts(chars, n - 1)
                        \cup {t \o <<c>> : t \in {u \in Texts(chars, n - 1) : Len(u) = n - 1}, c \in chars}

ParamInputs == {Absent} \cup {Str(t) : t \in Texts(ParamChars, MaxParamLen)}

ParamProbes == {[in |-> p, pc |-> "start", limit |-> 0, offset |-> 0, capped |-> 0] : p \in ParamInputs}

InitParams == probe \in ParamProbes /\ ServiceIdle

\* const limit = getLimit(req.query.limit)
ParseLimit ==
  /\ probe.pc = "start"
  /\ probe' = [probe EXCEPT !.pc = "limit", !.limit = getLimit(probe.in)]
  /\ UNCHANGED svcVars

\* const offset = getOffset(req.query.offset)
ParseOffset ==
  /\ probe.pc = "limit"
  /\ probe' = [probe EXCEPT !.pc = "offset", !.offset = getOffset(probe.in)]
  /\ UNCHANGED svcVars

\* the LIMIT parameter of the search statements
CapSearchLimit ==
  /\ probe.pc = "offset"
  /\ probe' = [probe EXCEPT !.pc = "done", !.capped = searchLimit(probe.limit)]
  /\ UNCHANGED svcVars

NextParams == ParseLimit \/ ParseOffset \/ CapSearchLimit

SpecParams == InitParams /\ [][NextParams]_vars

\* The parameter is absent or does not start, after whitespace and one sign,
\* with a decimal digit.
Unparsable(p) ==
  \/ ~p.present
  \/ LET s0 == DropLeadingWs(p.text)
         s1 == IF s0 # <<>> /\ s0[1] \in {"-", "+"} THEN Tail(s0) ELSE s0
     IN s1 = <<>> \/ IndexIn(s1[1], Digits) = 0

\* C6: whatever the limit and offset parameters are, the effective limit is in
\* [1,200] (50 when absent or unparsable), the effective offset is >= 0 (0 when
\* absent or unparsable), and the limit the search statements use is in [1,100].
C6_Clamped ==
  /\ probe.pc \in {"limit", "offset", "done"} =>
       /\ probe.limit \in 1..200
       /\ Unparsable(probe.in) => probe.limit = 50
  /\ probe.pc \in {"offset", "done"} =>
       /\ probe.offset >= 0
       /\ Unparsable(probe.in) => probe.offset = 0
  /\ probe.pc = "done" => probe.capped \in 1..100 /\ probe.capped <= probe.limit

\* C6 witness: a limit above the cap was clamped to 200 and, for search, to 100.
C6_Witness ==
  /\ probe.pc = "done"
  /\ probe.in = Str(<<"9", "9", "9">>)
  /\ probe.limit = 200
  /\ probe.capped = 100

\* ============================================================ media table
Naruto == <<"n","a","r","u","t","o">>
OnePiece == <<"o","n","e","_","p","i","e","c","e">>

\* The kinds of row a table starts with. Hidden rows exist in a deployed table
\* (the column is the soft-delete flag, set by the operator in the database);
\* no route of the API writes it.
RowKindList == <<
    [title |-> <<"a">>, category |-> Naruto, media_type |-> "image", views |-> 0, visible |-> TRUE],
    [title |-> <<"a">>, category |-> Naruto, media_type |-> "image", views |-> 0, visible |-> FALSE],
    [title |-> <<"b">>, category |-> Naruto, media_type |-> "gif", views |-> 0, visible |-> TRUE],
    [title |-> <<"N","a">>, category |-> OnePiece, media_type |-> "image", views |-> 1, visible |-> TRUE]
  >>
RowKinds == {RowKindList[i] : i \in DOMAIN RowKindList}

\* id SERIAL PRIMARY KEY: ids 1, 2, ... in insertion order; no route deletes.
MakeRow(k, i) ==
  [id |-> i, title |-> k.title, category |-> k.category, url |-> <<"u", i>>,
   media_type |-> k.media_type, views |-> k.views, visible |-> k.visible]

RECURSIVE KindSeqs(_)
KindSeqs(n) == IF n = 0 THEN {<<>>}
               ELSE KindSeqs(n - 1)
                    \cup {s \o <<k>> : s \in {u \in KindSeqs(n - 1) : Len(u) = n - 1}, k \in RowKinds}

Tables(n) == {[i \in 1..Len(ks) |-> MakeRow(ks[i], i)] : ks \in KindSeqs(n)}

\* ------------------------------------------------------------ SQL helpers
Reverse(s) == [i \in 1..Len(s) |-> s[Len(s) + 1 - i]]

\* x LIKE p: % matches any run of characters, _ any one character.
RECURSIVE Like(_, _)
Like(s, p) ==
  IF p = <<>> THEN s = <<>>
  ELSE IF p[1] = "%" THEN Like(s, Tail(p)) \/ (s # <<>> /\ Like(Tail(s), p))
  ELSE s # <<>> /\ (p[1] = "_" \/ p[1] = s[1]) /\ Like(Tail(s), Tail(p))

\* A variant of the WHERE clause that forgets visible = true.
WhereNoVisible(row, f) ==
  /\ f.type # "any" => row.media_type = f.type
  /\ f.byCategory => row.category = f.category
  /\ f.byId => row.id = f.id
  /\ f.byPattern => (Like(toLowerCase(row.title), f.pattern) \/ Like(toLowerCase(row.category), f.pattern))

\* The WHERE clause of the statements of the media router: visible = true and,
\* where the statement has them, media_type, category, id and the LIKE pair.
Where(row, f) ==
  /\ row.visible = TRUE
  /\ f.type # "any" => row.media_type = f.type
  /\ f.byCategory => row.category = f.category
  /\ f.byId => row.id = f.id
  /\ f.byPattern => (Like(toLowerCase(row.title), f.pattern) \/ Like(toLowerCase(row.category), f.pattern))

Matching(rows, f) == SelectSeq(rows, LAMBDA row : Where(row, f))

\* COUNT(*)
CountOf(rows, f) == Len(Matching(rows, f))

\* A variant of LIMIT/OFFSET that ignores the offset.
PageNoOffset(rows, limit, offset) == SubSeq(rows, 1, Min(Len(rows), limit))

\* LIMIT limit OFFSET offset
Page(rows, limit, offset) ==
  IF offset >= Len(rows) THEN <<>> ELSE SubSeq(rows, offset + 1, Min(Len(rows), offset + limit))

IndexOrders(n) == {p \in [1..n -> 1..n] : \A i, j \in 1..n : i # j => p[i] # p[j]}

\* ORDER BY views DESC: any order of the rows with non-increasing views
\* (the order of rows with equal views is the engine's choice).
ByViewsDesc(rows) ==
  {[i \in 1..Len(rows) |-> rows[p[i]]] : p \in
     {q \in IndexOrders(Len(rows)) : \A i \in 1..(Len(rows) - 1) : rows[q[i]].views >= rows[q[i + 1]].views}}

\* ORDER BY created_at DESC: newest first; rows are kept in insertion order.
ByCreatedDesc(rows) == Reverse(rows)

\* A variant of the UPDATE without its WHERE clause.
UpdateViewsAll(rows, id) == [i \in 1..Len(rows) |-> [rows[i] EXCEPT !.views = @ + 1]]

\* A variant of the UPDATE that counts down.
UpdateViewsDown(rows, id) ==
  [i \in 1..Len(rows) |-> IF rows[i].id = id THEN [rows[i] EXCEPT !.views = @ - 1] ELSE rows[i]]

\* UPDATE media SET views = views + 1 WHERE id = $1
UpdateViews(rows, id) ==
  [i \in 1..Len(rows) |-> IF rows[i].id = id THEN [rows[i] EXCEPT !.views = @ + 1] ELSE rows[i]]

\* ============================================================ media router
Idle == [pc |-> "idle"]

SearchQueryText == <<"S","e","a","r","c","h"," ","q","u","e","r","y">>
SearchRequiredMessage == <<"S","e","a","r","c","h"," ","q","u","e","r","y"," ","i","s"," ","r","e","q","u","i","r","e","d">>
SearchEmptyMessage == <<"S","e","a","r","c","h"," ","q","u","e","r","y"," ","c","a","n","n","o","t"," ","b","e"," ","e","m","p","t","y">>
SearchTooLongMessage == <<"S","e","a","r","c","h"," ","q","u","e","r","y"," ","t","o","o"," ","l","o","n","g"," ","(","m","a","x"," ","2","5","5"," ","c","h","a","r","a","c","t","e","r","s",")">>
MAX_QUERY_LENGTH == 255

\* The message of an error thrown by the database client (connection refused,
\* pool not initialised, statement failure).
DbErrorMessage == <<"E","C","O","N","N","R","E","F","U","S","E","D">>

\* validateSearchQuery: the trimmed query, or the Error it throws.
validateSearchQuery(q) ==
  IF ~q.present \/ q.text = <<>> THEN [ok |-> FALSE, message |-> SearchRequiredMessage]
  ELSE LET trimmed == trim(q.text)
       IN IF Len(trimmed) = 0 THEN [ok |-> FALSE, message |-> SearchEmptyMessage]
          ELSE IF Len(trimmed) > MAX_QUERY_LENGTH THEN [ok |-> FALSE, message |-> SearchTooLongMessage]
          ELSE [ok |-> TRUE, value |-> trimmed]

\* A variant of the catch blocks that answers 500 for every error.
CatchStatusAlways500(route, message) == 500

\* The status the catch block of a media route answers for an error message.
CatchStatus(route, message) ==
  IF route \in {"random", "category"} /\ startsWith(message, InvalidCategoryText) THEN 400
  ELSE IF route = "search" /\ includes(message, SearchQueryText) THEN 400
  ELSE 500

ErrorBody(message) == [error |-> message]

Respond(r, status, body) == [r EXCEPT !.pc = "done", !.status = status, !.body = body]

NoFilter == [type |-> "any", byCategory |-> FALSE, category |-> <<>>, byId |-> FALSE, id |-> 0,
             byPattern |-> FALSE, pattern |-> <<>>]

\* A request of the media router as it arrives.
NewMediaRequest(rq) ==
  [pc |-> "start", route |-> rq.route, type |-> rq.type, params |-> rq,
   limit |-> 0, offset |-> 0, filter |-> NoFilter, rows |-> <<>>, total |-> 0,
   stmts |-> 0, status |-> 0, body |-> <<>>]

\* The synchronous start of a media handler, up to its first await: parameters
\* are parsed and validated and the first statement is prepared, or the catch
\* block answers.
StartMedia(rq) ==
  LET r == NewMediaRequest(rq)
      typed == [NoFilter EXCEPT !.type = rq.type]
      paged == [r EXCEPT !.limit = getLimit(rq.limit), !.offset = getOffset(rq.offset)]
  IN CASE rq.route = "all" ->
            [paged EXCEPT !.pc = "select", !.filter = typed]
       [] rq.route = "random" ->
            IF rq.category.present
            THEN LET v == validateCategory(rq.category.text)
                 IN IF v.ok
                    THEN [r EXCEPT !.pc = "select",
                                   !.filter = [typed EXCEPT !.byCategory = TRUE, !.category = v.value]]
                    ELSE Respond(r, CatchStatus("random", v.message), ErrorBody(v.message))
            ELSE [r EXCEPT !.pc = "select", !.filter = typed]
       [] rq.route = "byid" ->
            LET mediaId == parseInt(rq.id)
            IN IF mediaId.nan \/ mediaId.n < 1
               THEN Respond(r, 400, ErrorBody(<<"Invalid media ID">>))
               ELSE [r EXCEPT !.pc = "select", !.filter = [typed EXCEPT !.byId = TRUE, !.id = mediaId.n]]
       [] rq.route = "search" ->
            LET v == validateSearchQuery(rq.q)
            IN IF v.ok
               THEN [paged EXCEPT !.pc = "select", !.limit = searchLimit(paged.limit),
                                  !.filter = [typed EXCEPT !.byPattern = TRUE,
                                                           !.pattern = <<"%">> \o toLowerCase(v.value) \o <<"%">>]]
               ELSE Respond(r, CatchStatus("search", v.message), ErrorBody(v.message))
       [] rq.route = "category" ->
            LET v == validateCategory(rq.category.text)
            IN IF v.ok
               THEN [paged EXCEPT !.pc = "select",
                                  !.filter = [typed EXCEPT !.byCategory = TRUE, !.category = v.value]]
               ELSE Respond(r, CatchStatus("category", v.message), ErrorBody(v.message))

\* A request arrives at slot i and its handler runs to its first await.
MediaBegin(i, rq) ==
  /\ reqs[i].pc = "idle"
  /\ reqs' = [reqs EXCEPT ![i] = StartMedia(rq)]
  /\ UNCHANGED <<proc, probe, media, incs, logs, cdn>>

\* The result sets the SELECT of request r can return on the table.
Selected(r, rows) ==
  LET m == Matching(rows, r.filter)
  IN CASE r.route \in {"all", "category"} -> {Page(ByCreatedDesc(m), r.limit, r.offset)}
       [] r.route = "search" -> {Page(o, r.limit, r.offset) : o \in ByViewsDesc(m)}
       [] r.route = "random" -> IF m = <<>> THEN {<<>>} ELSE {<<m[k]>> : k \in 1..Len(m)}
       [] r.route = "byid" -> {m}

NotFoundBody(r) ==
  IF r.route = "all" THEN [total |-> 0, returned |-> 0, limit |-> r.limit, offset |-> r.offset, results |-> <<>>]
  ELSE IF r.route \in {"search", "category"} THEN [total |-> 0, results |-> <<>>]
  ELSE ErrorBody(<<"not found">>)

PageBody(r, total) ==
  [total |-> total, returned |-> Len(r.rows), limit |-> r.limit, offset |-> r.offset, results |-> r.rows]

NoIncrement == [id |-> 0, st |-> "none"]

\* incrementViews(mediaId) is called and not awaited: the call is detached.
Detach(calls, i, id) == [calls EXCEPT ![i] = [id |-> id, st |-> "pending"]]

\* What the handler does when its SELECT has returned rows, up to its next
\* await or its response.
AfterSelect(r, rows) ==
  LET s == [r EXCEPT !.rows = rows, !.stmts = @ + 1]
  IN CASE r.route = "all" -> [s EXCEPT !.pc = "count"]
       [] r.route \in {"search", "category"} ->
            IF Len(rows) = 0 THEN Respond(s, 404, NotFoundBody(s)) ELSE [s EXCEPT !.pc = "count"]
       [] OTHER ->
            IF Len(rows) = 0 THEN Respond(s, 404, NotFoundBody(s)) ELSE Respond(s, 200, rows[1])

\* The statement of a handler failed: its catch block answers.
AfterFailure(r) ==
  Respond([r EXCEPT !.stmts = @ + 1], CatchStatus(r.route, DbErrorMessage), ErrorBody(DbErrorMessage))

\* A variant of the by-id handlers that calls incrementViews before the test of
\* result.rows.length.
ExecSelectCountFirst(i) ==
  /\ reqs[i].pc = "select"
  /\ \/ /\ \E rows \in Selected(reqs[i], media) :
             /\ reqs' = [reqs EXCEPT ![i] = AfterSelect(reqs[i], rows)]
             /\ incs' = IF reqs[i].route = "byid" THEN Detach(incs, i, reqs[i].filter.id) ELSE incs
        /\ UNCHANGED <<proc, probe, media, logs, cdn>>
     \/ /\ reqs' = [reqs EXCEPT ![i] = AfterFailure(reqs[i])]
        /\ logs' = [logs EXCEPT !.error = @ + 1]
        /\ UNCHANGED <<proc, probe, media, incs, cdn>>

\* await dbQuery(SELECT ...): the statement runs on the table as it is now, or
\* fails; the by-id handlers then detach incrementViews before they answer.
ExecSelect(i) ==
  /\ reqs[i].pc = "select"
  /\ \/ /\ \E rows \in Selected(reqs[i], media) :
             /\ reqs' = [reqs EXCEPT ![i] = AfterSelect(reqs[i], rows)]
             /\ incs' = IF reqs[i].route = "byid" /\ Len(rows) > 0
                        THEN Detach(incs, i, reqs[i].filter.id) ELSE incs
        /\ UNCHANGED <<proc, probe, media, logs, cdn>>
     \/ /\ reqs' = [reqs EXCEPT ![i] = AfterFailure(reqs[i])]
        /\ logs' = [logs EXCEPT !.error = @ + 1]
        /\ UNCHANGED <<proc, probe, media, incs, cdn>>

\* await dbQuery(SELECT COUNT(*) ...), then the response.
ExecCount(i) ==
  /\ reqs[i].pc = "count"
  /\ \/ /\ LET r == [reqs[i] EXCEPT !.stmts = @ + 1, !.total = CountOf(media, reqs[i].filter)]
           IN reqs' = [reqs EXCEPT ![i] =
                 IF Len(r.rows) = 0 THEN Respond(r, 404, NotFoundBody(r))
                 ELSE Respond(r, 200, PageBody(r, r.total))]
        /\ UNCHANGED <<proc, probe, media, incs, logs, cdn>>
     \/ /\ reqs' = [reqs EXCEPT ![i] = AfterFailure(reqs[i])]
        /\ logs' = [logs EXCEPT !.error = @ + 1]
        /\ UNCHANGED <<proc, probe, media, incs, cdn>>

\* A variant of incrementViews without its try/catch: the rejection of the
\* detached promise is handled by nobody.
IncrementRejectedUncaught(l) == [l EXCEPT !.unhandled = @ + 1]

\* catch (error) { logger.warn(...) } of incrementViews
IncrementRejected(l) == [l EXCEPT !.warn = @ + 1]

\* The detached incrementViews call k runs its UPDATE, or the UPDATE fails and
\* the failure is logged.
ExecIncrement(k) ==
  /\ incs[k].st = "pending"
  /\ \/ /\ media' = UpdateViews(media, incs[k].id)
        /\ incs' = [incs EXCEPT ![k].st = "done"]
        /\ UNCHANGED <<proc, probe, reqs, logs, cdn>>
     \/ /\ incs' = [incs EXCEPT ![k].st = "failed"]
        /\ logs' = IncrementRejected(logs)
        /\ UNCHANGED <<proc, probe, media, reqs, cdn>>

\* ------------------------------------------------------- requests of a run
NoParams == [route |-> "none", type |-> "any", category |-> Absent, id |-> Absent, q |-> Absent,
             limit |-> Absent, offset |-> Absent]

LimitParams == {Absent, Str(<<"1">>), Str(<<"2">>), Str(<<"-", "3">>), Str(<<"0">>)}
OffsetParams == {Absent, Str(<<"1">>), Str(<<"2">>), Str(<<"9">>), Str(<<"-", "1">>)}
CategoryParams == {Str(Naruto), Str(<<"N","a","r","u","t","o">>), Str(<<"O","N","E"," "," ","P","I","E","C","E">>),
                   Str(<<" ","n","a","r","u","t","o">>), Str(<<"b","l","e","a","c","h">>)}
IdParams == {Str(<<"1">>), Str(<<"2">>), Str(<<"3">>), Str(<<"0">>), Str(<<"-", "1">>),
             Str(<<"a">>), Str(<<"2", "x">>)}
QueryParams == {Absent, Str(<<>>), Str(<<" ">>), Str(<<"n", "a">>), Str(<<" ", "N", "A">>), Str(<<"x">>),
                Str(<<"a", "_">>), Str([i \in 1..(MAX_QUERY_LENGTH + 1) |-> "q"])}
Types == {"image", "gif"}

ListRequests ==
  {[NoParams EXCEPT !.route = "all", !.type = t, !.limit = l, !.offset = o] :
     t \in Types, l \in LimitParams, o \in OffsetParams}
RandomRequests ==
  {[NoParams EXCEPT !.route = "random"]}
  \cup {[NoParams EXCEPT !.route = "random", !.type = t, !.category = c] :
          t \in Types, c \in {Absent} \cup CategoryParams}
ByIdRequests ==
  {[NoParams EXCEPT !.route = "byid", !.type = t, !.id = x] : t \in Types, x \in IdParams}
SearchRequests ==
  {[NoParams EXCEPT !.route = "search", !.type = t, !.q = q, !.limit = l, !.offset = o] :
     t \in Types, q \in QueryParams, l \in LimitParams, o \in OffsetParams}
CategoryRequests ==
  {[NoParams EXCEPT !.route = "category", !.type = t, !.category = c, !.limit = l, !.offset = o] :
     t \in Types, c \in CategoryParams, l \in LimitParams, o \in OffsetParams}

MediaRequests == ListRequests \cup RandomRequests \cup ByIdRequests \cup SearchRequests \cup CategoryRequests

NoLogs == [warn |-> 0, error |-> 0, unhandled |-> 0]

\* The service with a table and n idle request slots. probe remembers the
\* table the run started with.
InitService(tables, n, configs) ==
  /\ media \in tables
  /\ probe = [media0 |-> media]
  /\ reqs = [i \in 1..n |-> Idle]
  /\ incs = [i \in 1..n |-> NoIncrement]
  /\ logs = NoLogs
  /\ cdn \in {[configured |-> c, uploads |-> <<>>] : c \in configs}

\* ---- the media router, one request at a time
InitMedia == InitService(Tables(MaxInitRows), 1, {TRUE}) /\ proc = WarmProcess(TRUE, 1)

NextMedia ==
  \/ \E i \in DOMAIN reqs : \E rq \in MediaRequests : MediaBegin(i, rq)
  \/ \E i \in DOMAIN reqs : ExecSelect(i)
  \/ \E i \in DOMAIN reqs : ExecCount(i)
  \/ \E k \in DOMAIN incs : ExecIncrement(k)

SpecMedia == InitMedia /\ [][NextMedia]_vars

\* ---- concurrent by-id requests and their detached increments
\* The by-id requests sent to the concurrent slots.
ViewIdParams == {Str(<<"1">>), Str(<<"2">>), Str(<<"a">>)}
ViewRequests ==
  {[NoParams EXCEPT !.route = "byid", !.type = t, !.id = x] : t \in Types, x \in ViewIdParams}

InitViews == InitService(Tables(MaxViewRows), MaxReq, {TRUE}) /\ proc = WarmProcess(TRUE, MaxReq)

NextViews ==
  \/ \E i \in DOMAIN reqs : \E rq \in ViewRequests : MediaBegin(i, rq)
  \/ \E i \in DOMAIN reqs : ExecSelect(i)
  \/ \E k \in DOMAIN incs : ExecIncrement(k)

SpecViews == InitViews /\ [][NextViews]_vars

\* ------------------------------------------------------------ C5, C7
Paged(r) == r.route \in {"all", "search", "category"}

Answered(r) == r.pc = "done" /\ r.status \in {200, 404}

\* The number of visible rows of the table that match the request's filter.
TotalMatching(r) ==
  Cardinality({j \in 1..Len(media) : Where(media[j], r.filter)})

\* C5 (as amended): for every list, search and by-category request the number of
\* rows returned is min(max(total_matching - offset, 0), limit), which is
\* min(total_matching, limit) when the offset is 0; the response is 404 with no
\* row exactly when offset >= total_matching, and a 200 response reports
\* returned and total accordingly.
C5_PageSize ==
  \A i \in DOMAIN reqs :
    LET r == reqs[i] IN
    (r.pc = "done" /\ Paged(r) /\ r.status \in {200, 404}) =>
      LET tm == TotalMatching(r)
          left == IF tm > r.offset THEN tm - r.offset ELSE 0
      IN /\ Len(r.body.results) = (IF left < r.limit THEN left ELSE r.limit)
         /\ r.offset = 0 => Len(r.body.results) = (IF tm < r.limit THEN tm ELSE r.limit)
         /\ r.status = 404 <=> r.offset >= tm
         /\ r.status = 200 => r.body.returned = Len(r.body.results) /\ r.body.total = tm

\* C5 witness: a page taken at a positive offset holds fewer rows than
\* min(total_matching, limit).
C5_Witness ==
  \E i \in DOMAIN reqs :
    LET r == reqs[i] IN
    /\ r.pc = "done" /\ Paged(r) /\ r.status = 200
    /\ r.offset = 2 /\ r.limit = 2
    /\ TotalMatching(r) = 3
    /\ r.body.returned = 1

\* C5 as stated: returned == min(total_matching, limit) for every list, search
\* and by-category request.
C5_AsStated ==
  \A i \in DOMAIN reqs :
    LET r == reqs[i] IN
    (r.pc = "done" /\ Paged(r) /\ r.status \in {200, 404}) =>
      LET tm == TotalMatching(r)
      IN Len(r.body.results) = (IF tm < r.limit THEN tm ELSE r.limit)

\* The rows a 200 response carries.
RowsOf(r) == IF Paged(r) THEN r.body.results ELSE <<r.body>>

\* C7: no response of the media router carries a hidden row, and no response of
\* a type-scoped route carries a row of the other media type.
C7_VisibleAndTyped ==
  \A i \in DOMAIN reqs :
    LET r == reqs[i] IN
    (r.pc = "done" /\ r.status = 200) =>
      \A j \in 1..Len(RowsOf(r)) :
        /\ RowsOf(r)[j].visible = TRUE
        /\ r.params.type # "any" => RowsOf(r)[j].media_type = r.params.type

\* C7 witness: a random image was served from a table that also holds a hidden
\* image and a visible gif.
C7_Witness ==
  \E i \in DOMAIN reqs :
    LET r == reqs[i] IN
    /\ r.pc = "done" /\ r.status = 200 /\ r.route = "random" /\ r.params.type = "image"
    /\ \E j \in 1..Len(media) : media[j].visible = FALSE /\ media[j].media_type = "image"
    /\ \E j \in 1..Len(media) : media[j].visible = TRUE /\ media[j].media_type = "gif"

\* ------------------------------------------------------------ C3, C4
\* The by-id requests answered 200 for row id.
Served(id) ==
  {i \in DOMAIN reqs : reqs[i].pc = "done" /\ reqs[i].route = "byid"
                       /\ reqs[i].status = 200 /\ reqs[i].filter.id = id}

IncsOf(id, st) == {k \in DOMAIN incs : incs[k].id = id /\ incs[k].st = st}

Quiescent ==
  /\ \A i \in DOMAIN reqs : reqs[i].pc = "done"
  /\ \A k \in DOMAIN incs : incs[k].st # "pending"

\* C3 (as amended): under every interleaving of the by-id requests and their
\* detached UPDATE statements, each 200 response has started exactly one
\* increment of the row it returned, and the row's views have grown by exactly
\* the number of those increments whose UPDATE succeeded: by N after N fetches
\* when none failed, by less when an increment failed (the failure is only
\* logged).
C3_ViewsCountSucceeded ==
  \A j \in 1..Len(media) :
    LET id == media[j].id IN
    /\ Cardinality(IncsOf(id, "pending")) + Cardinality(IncsOf(id, "done"))
         + Cardinality(IncsOf(id, "failed")) = Cardinality(Served(id))
    /\ media[j].views = probe.media0[j].views + Cardinality(IncsOf(id, "done"))
    /\ (Quiescent /\ IncsOf(id, "failed") = {})
         => media[j].views = probe.media0[j].views + Cardinality(Served(id))

\* C3 witness: the same row was fetched by every slot, all increments have
\* finished, and its views have grown by the number of fetches.
C3_Witness ==
  /\ Quiescent
  /\ \E j \in 1..Len(media) :
       /\ Cardinality(Served(media[j].id)) = Cardinality(DOMAIN reqs)
       /\ Cardinality(DOMAIN reqs) > 1
       /\ media[j].views = probe.media0[j].views + Cardinality(DOMAIN reqs)

\* C3 as stated: once all detached increments have finished, N fetches of a row
\* have increased its views by exactly N.
C3_AsStated ==
  Quiescent =>
    \A j \in 1..Len(media) :
      media[j].views = probe.media0[j].views + Cardinality(Served(media[j].id))

C4_State ==
  /\ logs.unhandled = 0
  /\ logs.warn = Cardinality({k \in DOMAIN incs : incs[k].st = "failed"})
  /\ \A k \in DOMAIN incs :
       incs[k].st # "none" =>
         LET r == reqs[k] IN
         /\ r.pc = "done" /\ r.status = 200
         /\ r.body = r.rows[1]
         /\ r.body.id = incs[k].id

C4_Step ==
  /\ \A i \in DOMAIN reqs :
       (reqs[i].pc = "select" /\ reqs'[i].pc = "done" /\ reqs'[i].status = 200)
         => incs[i].st = "none" /\ incs'[i].st = "pending"
  /\ (\E k \in DOMAIN incs : incs[k].st = "pending" /\ incs'[k].st # "pending")
       => reqs' = reqs

\* C4: the by-id handler answers 200 with the row it selected while the
\* increment it started is still pending; the increment finishing, or failing,
\* changes no response; a failed increment is logged by incrementViews and is
\* never an unhandled rejection.
C4_Detached == []C4_State /\ [][C4_Step]_vars

\* C4 witness: a by-id request was answered 200 and its increment failed later.
C4_Witness ==
  \E k \in DOMAIN incs :
    /\ incs[k].st = "failed"
    /\ reqs[k].status = 200
    /\ logs.warn = 1
    /\ logs.unhandled = 0

\* ============================================================ admin router
\* ------------------------------------------------------ authenticateAdmin
BearerPrefix == <<"B","e","a","r","e","r"," ">>

\* A token as jwt.verify sees it: its form, the algorithm and key of its
\* signature, its exp claim (0: none) and its other claims.
Token(form, alg, key, exp, isAdmin) ==
  [form |-> form, alg |-> alg, key |-> key, exp |-> exp,
   claims |-> [sub |-> "admin", is_admin |-> isAdmin, exp |-> exp]]

JWT_ALGORITHM == "HS256"
JWT_SECRET == "JWT_SECRET"

\* The encoded token as it stands in the header: base64url text, no space in it.
TokenText(token) == IF token.form = "jwt" THEN <<"e", "y", "J">> ELSE <<"x">>

\* req.headers.authorization
NoHeader == [present |-> FALSE, scheme |-> <<>>, token |-> Token("none", "none", "none", 0, "undefined")]
Header(scheme, token) == [present |-> TRUE, scheme |-> scheme, token |-> token]
HeaderText(h) == h.scheme \o TokenText(h.token)

\* jwt.verify(token, JWT_SECRET, { algorithms: [JWT_ALGORITHM] }) at time at:
\* the decoded claims, or the name of the error thrown.
jwtVerify(token, at) ==
  IF token.form # "jwt" THEN [ok |-> FALSE, name |-> "JsonWebTokenError"]
  ELSE IF token.alg # JWT_ALGORITHM THEN [ok |-> FALSE, name |-> "JsonWebTokenError"]
  ELSE IF token.key # JWT_SECRET THEN [ok |-> FALSE, name |-> "JsonWebTokenError"]
  ELSE IF token.exp # 0 /\ at >= token.exp THEN [ok |-> FALSE, name |-> "TokenExpiredError"]
  ELSE [ok |-> TRUE, decoded |-> token.claims]

\* JavaScript truthiness of the is_admin claim.
Truthy(v) == v \notin {"false", "undefined", "0", ""}

NoAdmin == [sub |-> "", is_admin |-> "undefined", exp |-> 0]

\* A variant of authenticateAdmin that does not look at is_admin.
authenticateAnyToken(header, at) ==
  IF ~header.present \/ ~startsWith(HeaderText(header), BearerPrefix)
  THEN [next |-> FALSE, status |-> 401, error |-> "Missing or invalid authorization header", admin |-> NoAdmin]
  ELSE LET v == jwtVerify(header.token, at)
       IN IF ~v.ok
          THEN [next |-> FALSE, status |-> 401, admin |-> NoAdmin,
                error |-> IF v.name = "TokenExpiredError" THEN "Token expired" ELSE "Invalid token"]
          ELSE [next |-> TRUE, status |-> 0, error |-> "", admin |-> v.decoded]

\* authenticateAdmin: the response it sends, or next() with the claims attached.
authenticateAdmin(header, at) ==
  IF ~header.present \/ ~startsWith(HeaderText(header), BearerPrefix)
  THEN [next |-> FALSE, status |-> 401, error |-> "Missing or invalid authorization header", admin |-> NoAdmin]
  ELSE LET v == jwtVerify(header.token, at)
       IN IF ~v.ok
          THEN [next |-> FALSE, status |-> 401, admin |-> NoAdmin,
                error |-> IF v.name = "TokenExpiredError" THEN "Token expired" ELSE "Invalid token"]
          ELSE IF ~Truthy(v.decoded.is_admin)
          THEN [next |-> FALSE, status |-> 403, error |-> "Insufficient permissions", admin |-> NoAdmin]
          ELSE [next |-> TRUE, status |-> 0, error |-> "", admin |-> v.decoded]

\* The tokens and headers of a run; tokens expire at time TokenExp.
TokenExp == 5
AdminToken == Token("jwt", "HS256", "JWT_SECRET", TokenExp, "true")
Tokens == {
    AdminToken,
    Token("jwt", "HS256", "JWT_SECRET", TokenExp, "false"),
    Token("jwt", "HS256", "JWT_SECRET", TokenExp, "undefined"),
    Token("jwt", "HS256", "other", TokenExp, "true"),
    Token("jwt", "none", "none", TokenExp, "true"),
    Token("garbage", "none", "none", 0, "true")
  }
Schemes == {<<"B","e","a","r","e","r">>, <<"b","e","a","r","e","r"," ">>, <<"B","a","s","i","c"," ">>, <<>>}
Headers == {NoHeader} \cup {Header(BearerPrefix, tk) : tk \in Tokens}
                      \cup {Header(sc, AdminToken) : sc \in Schemes}
Times == {TokenExp - 1, TokenExp}

GatedRoutes == {"init-db", "stats", "tables", "bulk-upload"}

NewAdminRequest(route, header, at) ==
  [pc |-> "start", route |-> route, header |-> header, at |-> at, admin |-> NoAdmin,
   stmts |-> 0, status |-> 0, body |-> <<>>]

\* A request to a gated route arrives at slot i: authenticateAdmin answers it or
\* calls next().
AdminArrive(i, route, header, at) ==
  /\ reqs[i].pc = "idle"
  /\ LET r == NewAdminRequest(route, header, at)
         a == authenticateAdmin(header, at)
     IN reqs' = [reqs EXCEPT ![i] =
          IF a.next THEN [r EXCEPT !.pc = "handler", !.admin = a.admin]
          ELSE Respond(r, a.status, [error |-> a.error])]
  /\ UNCHANGED <<proc, probe, media, incs, logs, cdn>>

\* ------------------------------------------------------------ login
ADMIN_USERNAME == "admin"
ADMIN_PASSWORD == "password"
JWT_EXPIRE_MINUTES == 60

\* A field of the login body: undefined, or a string.
NoField == [present |-> FALSE, text |-> ""]
Field(s) == [present |-> TRUE, text |-> s]

\* !field
Falsy(field) == ~field.present \/ field.text = ""

\* A variant of createJwtToken that adds the minutes to the seconds.
createJwtTokenMinutes(data, now) ==
  [form |-> "jwt", alg |-> JWT_ALGORITHM, key |-> JWT_SECRET, exp |-> now + JWT_EXPIRE_MINUTES,
   claims |-> [sub |-> data.sub, is_admin |-> data.is_admin, exp |-> now + JWT_EXPIRE_MINUTES]]

\* createJwtToken(data) at second now = Math.floor(Date.now() / 1000)
createJwtToken(data, now) ==
  [form |-> "jwt", alg |-> JWT_ALGORITHM, key |-> JWT_SECRET, exp |-> now + JWT_EXPIRE_MINUTES * 60,
   claims |-> [sub |-> data.sub, is_admin |-> data.is_admin, exp |-> now + JWT_EXPIRE_MINUTES * 60]]

\* POST /login with the body fields username and password, at second now.
Login(i, username, password, now) ==
  /\ reqs[i].pc = "idle"
  /\ LET r == [pc |-> "start", route |-> "login", username |-> username, password |-> password,
               at |-> now, stmts |-> 0, status |-> 0, body |-> <<>>]
     IN reqs' = [reqs EXCEPT ![i] =
          IF Falsy(username) \/ Falsy(password)
          THEN Respond(r, 400, [error |-> "Username and password required"])
          ELSE IF username.text # ADMIN_USERNAME \/ password.text # ADMIN_PASSWORD
          THEN Respond(r, 401, [error |-> "Invalid credentials"])
          ELSE Respond(r, 200, [token |-> createJwtToken([sub |-> username.text, is_admin |-> "true"], now)])]
  /\ UNCHANGED <<proc, probe, media, incs, logs, cdn>>

Usernames == {NoField, Field(""), Field("admin"), Field("Admin"), Field("root")}
Passwords == {NoField, Field(""), Field("password"), Field("admin")}
LoginTimes == {0, 1}

\* The tokens the login route has issued so far.
IssuedTokens ==
  {reqs[i].body.token : i \in {k \in DOMAIN reqs : /\ reqs[k].pc = "done"
                                                    /\ reqs[k].route = "login"
                                                    /\ reqs[k].status = 200}}

\* A request to a gated route presents a token the login route issued, one
\* second before its expiry, at its expiry, or one second after.
PresentIssued(i) ==
  \E route \in GatedRoutes : \E token \in IssuedTokens : \E at \in {token.exp - 1, token.exp, token.exp + 1} :
    AdminArrive(i, route, Header(BearerPrefix, token), at)

\* ------------------------------------------------ init-db, stats, tables
\* SUM(CASE WHEN column = value THEN 1 ELSE 0 END)
CountWhere(rows, column, value) == Cardinality({j \in 1..Len(rows) : rows[j][column] = value})

RECURSIVE SumViews(_)
SumViews(rows) == IF rows = <<>> THEN 0 ELSE Head(rows).views + SumViews(Tail(rows))

\* The three aggregates of a set of rows that stats and tables both select.
TypeCounts(rows) ==
  [total |-> Len(rows),
   images |-> CountWhere(rows, "media_type", "image"),
   gifs |-> CountWhere(rows, "media_type", "gif")]

\* The summary columns of the first statement of stats.
StatsSummary(rows) ==
  [total_media |-> TypeCounts(rows).total,
   total_images |-> TypeCounts(rows).images,
   total_gifs |-> TypeCounts(rows).gifs,
   visible |-> CountWhere(rows, "visible", TRUE),
   hidden |-> CountWhere(rows, "visible", FALSE),
   total_views |-> SumViews(rows)]

\* byCategory as built from the rows of the GROUP BY category statement.
ByCategory(rows) ==
  [c \in {rows[j].category : j \in 1..Len(rows)} |->
     TypeCounts(SelectSeq(rows, LAMBDA row : row.category = c))]

StatsBody(summary, rows) ==
  [status |-> "ok", database |-> "connected", summary |-> summary,
   by_category |-> ByCategory(rows), allowed_categories |-> ALLOWED_CATEGORIES]

TablesBody(rows) ==
  [status |-> "ok", tables |-> <<"media">>,
   media |-> [total_record |-> TypeCounts(rows).total, images |-> TypeCounts(rows).images,
              gifs |-> TypeCounts(rows).gifs]]

InitDbBody == [status |-> "success", message |-> "Database tables created successfully"]

\* catch (error) of init-db, stats and tables
AdminFailure(r) == Respond([r EXCEPT !.stmts = @ + 1], 500, ErrorBody(DbErrorMessage))

\* The statement the handler of init-db, stats or tables is waiting for runs, or
\* fails; stats runs a second statement before it answers.
AdminQuery(i) ==
  /\ reqs[i].pc \in {"handler", "stats2"}
  /\ reqs[i].route \in {"init-db", "stats", "tables"}
  /\ \/ /\ LET r == [reqs[i] EXCEPT !.stmts = @ + 1]
           IN reqs' = [reqs EXCEPT ![i] =
                CASE r.route = "init-db" -> Respond(r, 200, InitDbBody)
                  [] r.route = "tables" -> Respond(r, 200, TablesBody(media))
                  [] r.route = "stats" /\ r.pc = "handler" ->
                       [r EXCEPT !.pc = "stats2", !.body = StatsSummary(media)]
                  [] OTHER -> Respond(r, 200, StatsBody(r.body, media))]
        /\ UNCHANGED <<proc, probe, media, incs, logs, cdn>>
     \/ /\ reqs' = [reqs EXCEPT ![i] = AdminFailure(reqs[i])]
        /\ logs' = [logs EXCEPT !.error = @ + 1]
        /\ UNCHANGED <<proc, probe, media, incs, cdn>>

\* ------------------------------------------------------------ bulk upload
\* A field of req.body: undefined, a string, or an array of strings.
Undefined == [kind |-> "undefined", text |-> <<>>, items |-> <<>>]
StrField(s) == [kind |-> "string", text |-> s, items |-> <<>>]
ArrField(a) == [kind |-> "array", text |-> <<>>, items |-> a]

Quote == "\""

\* The index of the first character c of s, or 0.
FirstIndex(s, c) ==
  IF \E k \in 1..Len(s) : s[k] = c
  THEN CHOOSE k \in 1..Len(s) : s[k] = c /\ \A m \in 1..(k - 1) : s[m] # c
  ELSE 0

\* The elements of a JSON array text between its brackets: string literals
\* (without escapes) and unsigned integers, separated by commas.
RECURSIVE ParseElements(_)
ParseElements(s) ==
  IF s = <<>> THEN [ok |-> FALSE, items |-> <<>>]
  ELSE IF s[1] = Quote
  THEN LET close == FirstIndex(Tail(s), Quote) IN
       IF close = 0 THEN [ok |-> FALSE, items |-> <<>>]
       ELSE LET item == SubSeq(s, 2, close)
                rest == SubSeq(s, close + 2, Len(s))
            IN IF rest = <<>> THEN [ok |-> TRUE, items |-> <<item>>]
               ELSE IF rest[1] # "," THEN [ok |-> FALSE, items |-> <<>>]
               ELSE LET more == ParseElements(Tail(rest))
                    IN [ok |-> more.ok, items |-> <<item>> \o more.items]
  ELSE LET ds == DigitPrefix(s, 10)
           rest == SubSeq(s, Len(ds) + 1, Len(s))
       IN IF ds = <<>> \/ (Len(ds) > 1 /\ ds[1] = "0") THEN [ok |-> FALSE, items |-> <<>>]
          ELSE IF rest = <<>> THEN [ok |-> TRUE, items |-> <<ds>>]
          ELSE IF rest[1] # "," THEN [ok |-> FALSE, items |-> <<>>]
          ELSE LET more == ParseElements(Tail(rest))
               IN [ok |-> more.ok, items |-> <<ds>> \o more.items]

\* JSON.parse(field) when it yields an array: the elements, as String() shows them.
ParseJsonArray(s) ==
  IF Len(s) < 2 \/ s[1] # "[" \/ s[Len(s)] # "]" THEN [ok |-> FALSE, items |-> <<>>]
  ELSE IF Len(s) = 2 THEN [ok |-> TRUE, items |-> <<>>]
  ELSE ParseElements(SubSeq(s, 2, Len(s) - 1))

\* normalizeArrayField
normalizeArrayField(field) ==
  IF field.kind = "undefined" \/ (field.kind = "string" /\ field.text = <<>>) THEN <<>>
  ELSE IF field.kind = "array" THEN field.items
  ELSE LET parsed == ParseJsonArray(field.text)
       IN IF parsed.ok THEN parsed.items ELSE <<field.text>>

\* String(n) of a non-negative integer
RECURSIVE IntToStr(_)
IntToStr(n) == IF n < 10 THEN <<Digits[n + 1]>> ELSE IntToStr(n \div 10) \o <<Digits[(n % 10) + 1]>>

\* A variant of the title replication that numbers the titles from 0.
replicateTitlesFromZero(titles, n) ==
  IF Len(titles) = 1 /\ n > 1
  THEN [idx \in 1..n |-> titles[1] \o <<" ">> \o IntToStr(idx - 1)]
  ELSE titles

\* titles = files.map((_, idx) => `${singleTitle} ${idx + 1}`) when one title
\* came with several files
replicateTitles(titles, n) ==
  IF Len(titles) = 1 /\ n > 1
  THEN [idx \in 1..n |-> titles[1] \o <<" ">> \o IntToStr(idx)]
  ELSE titles

\* categories = Array(files.length).fill(singleCategory) when one category came
\* with several files
replicateCategories(categories, n) ==
  IF Len(categories) = 1 /\ n > 1 THEN [idx \in 1..n |-> categories[1]] ELSE categories

TitleEmptyMessage == <<"T","i","t","l","e"," ","c","a","n","n","o","t"," ","b","e"," ","e","m","p","t","y">>
NoSecureUrlMessage == <<"C","l","o","u","d","i","n","a","r","y"," ","d","i","d"," ","n","o","t"," ","r","e","t","u","r","n"," ","s","e","c","u","r","e","_","u","r","l">>
CdnErrorMessage == <<"U","p","l","o","a","d"," ","f","a","i","l","e","d">>

MulterErrorMessage == "Invalid file type or too many files"

MAX_FILES == 100
AllowedMimes == {"image/jpeg", "image/png", "image/gif", "image/webp"}

\* upload.array('files', 100) with the fileFilter: the files, or the error
\* multer passes to next().
multer(files) ==
  IF Len(files) > MAX_FILES THEN [ok |-> FALSE, files |-> <<>>]
  ELSE IF \E k \in 1..Len(files) : files[k].mimetype \notin AllowedMimes THEN [ok |-> FALSE, files |-> <<>>]
  ELSE [ok |-> TRUE, files |-> files]

BulkBody(r) ==
  [success |-> r.success, failed |-> r.failed, uploaded_media |-> r.uploaded, errors |-> r.errors]

\* A variant of the per-file catch block that gives the batch up.
RecordFailureAndAbort(r, cause, message) ==
  Respond([r EXCEPT !.fates = Append(@, cause), !.logged = @ + 1], 500, ErrorBody(message))

\* catch (error) of the per-file try: the file goes to errors with its
\* originalname, its index and the message; the loop goes on.
RecordFailure(r, cause, message) ==
  [r EXCEPT !.failed = @ + 1,
            !.errors = Append(@, [filename |-> r.files[r.idx + 1].originalname, index |-> r.idx,
                                  error |-> message]),
            !.fates = Append(@, cause),
            !.logged = @ + 1,
            !.idx = @ + 1]

\* The for loop from file idx on, up to its next await: files whose title or
\* category is refused go to errors at once; the first file that passes waits
\* for its CDN upload; after the last file the response is sent.
RECURSIVE RunLoop(_)
RunLoop(r) ==
  IF r.pc = "done" THEN r
  ELSE IF r.idx >= Len(r.files) THEN Respond(r, 200, BulkBody(r))
  ELSE LET title == trim(r.titles[r.idx + 1])
           category == trim(r.categories[r.idx + 1])
       IN IF title = <<>> THEN RunLoop(RecordFailure(r, "title", TitleEmptyMessage))
          ELSE LET v == validateCategory(category)
               IN IF ~v.ok THEN RunLoop(RecordFailure(r, "category", v.message))
                  ELSE [r EXCEPT !.pc = "upload", !.title = title, !.category = v.value]

\* logger.error as called by the steps that led from request before to after.
Logged(before, after) ==
  [logs EXCEPT !.error = @ + after.logged - (IF before.pc = "handler" THEN 0 ELSE before.logged)]

\* cloudinary.uploader.upload_stream(uploadParams, ...) of the file r waits for
UploadCall(i, r) ==
  [req |-> i, index |-> r.idx, folder |-> <<"animepixels/">> \o r.category,
   format |-> IF r.media_type = "gif" THEN "gif" ELSE "auto"]

\* A variant that starts the uploads of all the files left at once.
StartedUploadsAll(calls, i, r) ==
  IF r.pc = "upload"
  THEN calls \o [k \in 1..(Len(r.files) - r.idx) |-> UploadCall(i, [r EXCEPT !.idx = r.idx + k - 1])]
  ELSE calls

StartedUploads(calls, i, r) == IF r.pc = "upload" THEN Append(calls, UploadCall(i, r)) ELSE calls

NoBatchError == "none"

\* A variant of the batch validation that does not look at media_type.
batchErrorAnyMediaType(n, titles, categories, media_type) ==
  IF n = 0 THEN "No files provided"
  ELSE IF Len(titles) # n THEN "Titles count != files count"
  ELSE IF Len(categories) # n THEN "Categories count != files count"
  ELSE NoBatchError

\* The checks of the batch before the loop: the error of the 400 response, or
\* none.
batchError(n, titles, categories, media_type) ==
  IF n = 0 THEN "No files provided"
  ELSE IF Len(titles) # n THEN "Titles count != files count"
  ELSE IF Len(categories) # n THEN "Categories count != files count"
  ELSE IF media_type \notin {"image", "gif"} THEN "media_type must be 'image' or 'gif'"
  ELSE NoBatchError

\* The handler of bulk-upload from its start to its first await: configuration
\* check, field normalization, replication, batch validation, then the loop.
StartBulk(r0, input) ==
  LET titles0 == normalizeArrayField(input.titles)
      categories0 == normalizeArrayField(input.categories)
      n == Len(input.files)
      titles == replicateTitles(titles0, n)
      categories == replicateCategories(categories0, n)
      r == [pc |-> "loop", route |-> r0.route, header |-> r0.header, at |-> r0.at, admin |-> r0.admin,
            stmts |-> 0, status |-> 0, body |-> <<>>,
            files |-> input.files, media_type |-> input.media_type,
            titles0 |-> titles0, categories0 |-> categories0,
            titles |-> IF n = 0 THEN titles0 ELSE titles,
            categories |-> IF n = 0 THEN categories0 ELSE categories,
            idx |-> 0, title |-> <<>>, category |-> <<>>, secureUrl |-> <<>>,
            uploaded |-> <<>>, errors |-> <<>>, success |-> 0, failed |-> 0, fates |-> <<>>,
            logged |-> 0, batch |-> "refused"]
      refusal == batchError(n, titles, categories, input.media_type)
  IN IF refusal # NoBatchError THEN Respond(r, 400, [error |-> refusal])
     ELSE RunLoop([r EXCEPT !.batch = "accepted"])

\* The error handler of the app answers for an error multer passed to next().
ErrorHandler(r) ==
  Respond([pc |-> "multer", route |-> r.route, header |-> r.header, at |-> r.at, admin |-> r.admin,
           stmts |-> 0, status |-> 0, body |-> <<>>, logged |-> 2], 500,
          [error |-> "Internal Server Error",
           message |-> IF proc.production THEN "An error occurred" ELSE MulterErrorMessage])

\* A variant in which the check of the file list comes before the check of the
\* configuration.
NotConfiguredAfterFiles(r) ==
  Respond([pc |-> "config", route |-> r.route, header |-> r.header, at |-> r.at, admin |-> r.admin,
           stmts |-> 0, status |-> 0, body |-> <<>>, logged |-> 0], 400, [error |-> "No files provided"])

\* if (!cloudinary.config().cloud_name)
NotConfigured(r) ==
  Respond([pc |-> "config", route |-> r.route, header |-> r.header, at |-> r.at, admin |-> r.admin,
           stmts |-> 0, status |-> 0, body |-> <<>>, logged |-> 1], 500, [error |-> "Cloudinary is not configured"])

\* multer has read the body of an authenticated bulk-upload request and the
\* handler runs to its first await.
BulkBegin(i, input) ==
  /\ reqs[i].pc = "handler"
  /\ reqs[i].route = "bulk-upload"
  /\ LET m == multer(input.files)
         r == IF ~m.ok THEN ErrorHandler(reqs[i])
              ELSE IF ~cdn.configured THEN NotConfigured(reqs[i])
              ELSE StartBulk(reqs[i], input)
     IN /\ reqs' = [reqs EXCEPT ![i] = r]
        /\ cdn' = [cdn EXCEPT !.uploads = StartedUploads(@, i, r)]
        /\ logs' = Logged(reqs[i], r)
  /\ UNCHANGED <<proc, probe, media, incs>>

\* A variant of the callback without the test of secure_url: a result without
\* it goes on to the INSERT.
CdnAnswerUntested(i) ==
  /\ reqs[i].pc = "upload"
  /\ \/ /\ LET own == {n \in 1..Len(cdn.uploads) : cdn.uploads[n].req = i}
               call == CHOOSE n \in own : \A m \in own : m <= n
           IN \E url \in {<<"cdn", call>>, <<>>} :
                reqs' = [reqs EXCEPT ![i] = [@ EXCEPT !.pc = "insert", !.secureUrl = url]]
        /\ UNCHANGED <<proc, probe, media, incs, logs, cdn>>
     \/ LET called == [reqs[i] EXCEPT !.logged = @ + 1]
            r == RunLoop(RecordFailure(called, "cdn", CdnErrorMessage))
        IN /\ reqs' = [reqs EXCEPT ![i] = r]
           /\ cdn' = [cdn EXCEPT !.uploads = StartedUploads(@, i, r)]
           /\ logs' = Logged(reqs[i], r)
           /\ UNCHANGED <<proc, probe, media, incs>>

\* The CDN answers the upload request i waits for: a result with a secure_url
\* (the URL of that upload, the latest call of the request), an error, or a
\* result without secure_url.
CdnAnswer(i) ==
  /\ reqs[i].pc = "upload"
  /\ \/ /\ LET own == {n \in 1..Len(cdn.uploads) : cdn.uploads[n].req = i}
               call == CHOOSE n \in own : \A m \in own : m <= n
           IN reqs' = [reqs EXCEPT ![i] = [@ EXCEPT !.pc = "insert", !.secureUrl = <<"cdn", call>>]]
        /\ UNCHANGED <<proc, probe, media, incs, logs, cdn>>
     \/ \E cause \in {"cdn", "nourl"} :
          LET called == [reqs[i] EXCEPT !.logged = IF cause = "cdn" THEN @ + 1 ELSE @]
              r == RunLoop(RecordFailure(called, cause,
                     IF cause = "cdn" THEN CdnErrorMessage ELSE NoSecureUrlMessage))
          IN /\ reqs' = [reqs EXCEPT ![i] = r]
             /\ cdn' = [cdn EXCEPT !.uploads = StartedUploads(@, i, r)]
             /\ logs' = Logged(reqs[i], r)
             /\ UNCHANGED <<proc, probe, media, incs>>

\* A variant of the INSERT that stores the title and category as sent.
InsertedRowAsSent(rows, r) ==
  [id |-> Len(rows) + 1, title |-> r.titles[r.idx + 1], category |-> r.categories[r.idx + 1],
   url |-> r.secureUrl, media_type |-> r.media_type, views |-> 0, visible |-> TRUE]

\* INSERT INTO media (...) VALUES ($1, ..., true, 0) RETURNING ...: the row as
\* inserted, with the next id of the sequence.
InsertedRow(rows, r) ==
  [id |-> Len(rows) + 1, title |-> r.title, category |-> r.category, url |-> r.secureUrl,
   media_type |-> r.media_type, views |-> 0, visible |-> TRUE]

\* The INSERT request i waits for runs, or fails; then the loop goes on.
ExecInsert(i) ==
  /\ reqs[i].pc = "insert"
  /\ \/ LET row == InsertedRow(media, reqs[i])
            item == [filename |-> reqs[i].files[reqs[i].idx + 1].originalname,
                     title |-> reqs[i].title, category |-> reqs[i].category, media |-> row]
            r == RunLoop([reqs[i] EXCEPT !.pc = "loop", !.stmts = @ + 1,
                                         !.uploaded = Append(@, item),
                                         !.success = @ + 1,
                                         !.fates = Append(@, "ok"),
                                         !.idx = @ + 1])
        IN /\ media' = Append(media, row)
           /\ reqs' = [reqs EXCEPT ![i] = r]
           /\ cdn' = [cdn EXCEPT !.uploads = StartedUploads(@, i, r)]
           /\ logs' = Logged(reqs[i], r)
           /\ UNCHANGED <<proc, probe, incs>>
     \/ LET r == RunLoop(RecordFailure([reqs[i] EXCEPT !.pc = "loop", !.stmts = @ + 1],
                                       "insert", DbErrorMessage))
        IN /\ reqs' = [reqs EXCEPT ![i] = r]
           /\ cdn' = [cdn EXCEPT !.uploads = StartedUploads(@, i, r)]
           /\ logs' = Logged(reqs[i], r)
           /\ UNCHANGED <<proc, probe, media, incs>>

\* ------------------------------------------------------------ the whole API
File(k, mimetype) == [originalname |-> <<"f">> \o IntToStr(k) \o <<".", "p", "n", "g">>, mimetype |-> mimetype]

\* The batches of files sent: up to MaxFiles accepted files, a batch with a file
\* of a refused type, and a batch of more files than the route accepts.
FileBatches ==
  {[k \in 1..n |-> File(k, "image/png")] : n \in 0..MaxFiles}
  \cup {<<File(1, "image/png"), File(2, "text/plain")>>}
  \cup {[k \in 1..(MAX_FILES + 1) |-> File(k, "image/png")]}

\* The titles fields sent: absent, plain strings, JSON array texts, repeated
\* form fields.
TitleFields == {
    Undefined,
    StrField(<<>>),
    StrField(<<"a">>),
    StrField(<<" ">>),
    StrField(<<"[", "]">>),
    StrField(<<"[", "\"", "a", "\"", "]">>),
    StrField(<<"[","\"","a","\"",",","\"","b","\"","]">>),
    StrField(<<"[","\"","a","\"",",","\""," ","\"",",","3","]">>),
    StrField(<<"[","\"","a","\"",",","\"","b","\"">>),
    ArrField(<<<<"a">>, <<" ", "b", " ">>>>),
    ArrField(<<<<"a">>, <<>>, <<"c">>>>),
    ArrField(<<<<"a">>, <<"b">>, <<"c">>, <<"d">>>>)
  }

Bleach == <<"b","l","e","a","c","h">>
PaddedOnePiece == <<" ","O","n","e"," ","P","i","e","c","e"," ">>

CategoryFields == {
    Undefined,
    StrField(Naruto),
    StrField(PaddedOnePiece),
    StrField(Bleach),
    StrField(<<"[","\"","n","a","r","u","t","o","\"",",","\"","b","l","e","a","c","h","\"","]">>),
    ArrField(<<Naruto, Naruto>>),
    ArrField(<<Naruto, Bleach, PaddedOnePiece>>),
    ArrField(<<Naruto, PaddedOnePiece, Naruto, Naruto>>)
  }

MediaTypes == {"image", "gif", "video"}

BulkInputs ==
  {[files |-> f, titles |-> ti, categories |-> c, media_type |-> m] :
     f \in FileBatches, ti \in TitleFields, c \in CategoryFields, m \in MediaTypes}

\* The media requests sent to the whole API: every route, default paging.
AppMediaRequests ==
  RandomRequests \cup ViewRequests
  \cup {[NoParams EXCEPT !.route = "all", !.type = ty] : ty \in Types}
  \cup {[NoParams EXCEPT !.route = "search", !.type = ty, !.q = q] :
          ty \in Types, q \in {Absent, Str(<<"n", "a">>)}}
  \cup {[NoParams EXCEPT !.route = "category", !.type = ty, !.category = c] :
          ty \in Types, c \in CategoryParams}

\* The tables the whole API starts with: none of the rows, or one of each kind.
AppTables == {<<>>, [i \in DOMAIN RowKindList |-> MakeRow(RowKindList[i], i)]}

Init == InitService(AppTables, 1, BOOLEAN) /\ proc \in {WarmProcess(production, 1) : production \in BOOLEAN}

Next ==
  \/ \E i \in DOMAIN reqs : \E route \in GatedRoutes : \E header \in Headers : \E at \in Times :
       AdminArrive(i, route, header, at)
  \/ \E i \in DOMAIN reqs : \E username \in Usernames : \E password \in Passwords : \E now \in LoginTimes :
       Login(i, username, password, now)
  \/ \E i \in DOMAIN reqs : AdminQuery(i)
  \/ \E i \in DOMAIN reqs : \E input \in BulkInputs : BulkBegin(i, input)
  \/ \E i \in DOMAIN reqs : CdnAnswer(i)
  \/ \E i \in DOMAIN reqs : ExecInsert(i)
  \/ \E i \in DOMAIN reqs : \E rq \in AppMediaRequests : MediaBegin(i, rq)
  \/ \E i \in DOMAIN reqs : ExecSelect(i)
  \/ \E i \in DOMAIN reqs : ExecCount(i)
  \/ \E k \in DOMAIN incs : ExecIncrement(k)

Spec == Init /\ [][Next]_vars

\* ------------------------------------------------------------ C1
AdminRequests == {i \in DOMAIN reqs : reqs[i].pc # "idle" /\ reqs[i].route \in GatedRoutes}

\* What the Authorization header of request r is, read off the header itself.
HeaderMalformed(r) == ~r.header.present \/ r.header.scheme # BearerPrefix
SignatureInvalid(r) ==
  r.header.token.form # "jwt" \/ r.header.token.alg # "HS256" \/ r.header.token.key # JWT_SECRET
Expired(r) == r.at >= r.header.token.exp
LacksAdminFlag(r) == r.header.token.claims.is_admin \in {"false", "undefined"}

ExpectedRejection(r) ==
  IF HeaderMalformed(r) THEN 401
  ELSE IF SignatureInvalid(r) \/ Expired(r) THEN 401
  ELSE IF LacksAdminFlag(r) THEN 403
  ELSE 0

\* C1: a request to a gated route with a missing or malformed header, or a token
\* with an invalid signature or expired, is answered 401, and one whose token
\* verifies but lacks a truthy is_admin is answered 403; in each case the
\* handler never runs: no statement, no CDN upload, no change of the table, no
\* claims attached. Only a verified admin token gets its claims attached and
\* the handler called.
C1_RejectsBeforeHandler ==
  \A i \in AdminRequests :
    LET r == reqs[i]
    IN IF ExpectedRejection(r) # 0
       THEN /\ r.pc = "done"
            /\ r.status = ExpectedRejection(r)
            /\ r.stmts = 0
            /\ r.admin = NoAdmin
            /\ cdn.uploads = <<>>
            /\ media = probe.media0
       ELSE /\ r.admin = r.header.token.claims
            /\ r.admin.is_admin = "true"

\* A validly signed, unexpired token without the admin flag was answered 403.
C1_Witness ==
  \E i \in AdminRequests :
    /\ ~HeaderMalformed(reqs[i]) /\ ~SignatureInvalid(reqs[i]) /\ ~Expired(reqs[i])
    /\ LacksAdminFlag(reqs[i])
    /\ reqs[i].route = "bulk-upload"
    /\ reqs[i].pc = "done" /\ reqs[i].status = 403

\* ------------------------------------------------------------ C10
BulkRequests == {i \in DOMAIN reqs : reqs[i].pc # "idle" /\ "titles0" \in DOMAIN reqs[i]}

\* C10: with n > 1 files and exactly one title, the titles are the title
\* followed by a space and the 1-based index of the file; with n > 1 files and
\* exactly one category, the category is repeated n times; in every other case
\* the normalized fields are left as they are.
C10_Replication ==
  \A i \in BulkRequests :
    LET r == reqs[i]
        n == Len(r.files)
    IN /\ IF Len(r.titles0) = 1 /\ n > 1
          THEN /\ Len(r.titles) = n
               /\ \A k \in 1..n : k <= 9 => r.titles[k] = r.titles0[1] \o <<" ", Digits[k + 1]>>
          ELSE r.titles = r.titles0
       /\ IF Len(r.categories0) = 1 /\ n > 1
          THEN /\ Len(r.categories) = n
               /\ \A k \in 1..n : r.categories[k] = r.categories0[1]
          ELSE r.categories = r.categories0

\* One title and one category came with three files, and the third file was
\* stored under the title with index 3.
C10_Witness ==
  \E i \in BulkRequests :
    /\ Len(reqs[i].files) = 3
    /\ reqs[i].titles0 = <<<<"a">>>>
    /\ reqs[i].categories0 = <<PaddedOnePiece>>
    /\ reqs[i].pc = "done" /\ reqs[i].status = 200 /\ reqs[i].success = 3
    /\ media[Len(media)].title = <<"a", " ", "3">>
    /\ media[Len(media)].category = OnePiece

\* ------------------------------------------------------------ C2
AcceptedBatches == {i \in BulkRequests : reqs[i].batch = "accepted"}

\* The entries of errors for the file at 0-based index idx.
ErrorsAt(r, idx) == {e \in 1..Len(r.errors) : r.errors[e].index = idx}
UploadedOf(r, name) == {u \in 1..Len(r.uploaded) : r.uploaded[u].filename = name}

\* The message each cause of failure leaves in errors.
MessageFits(r, k, message) ==
  CASE r.fates[k] = "title" -> message = TitleEmptyMessage /\ trim(r.titles[k]) = <<>>
    [] r.fates[k] = "category" ->
         /\ message = InvalidCategoryText \o <<":", " ">> \o trim(r.categories[k])
         /\ trim(r.titles[k]) # <<>>
    [] r.fates[k] = "cdn" -> message = CdnErrorMessage
    [] r.fates[k] = "nourl" -> message = NoSecureUrlMessage
    [] r.fates[k] = "insert" -> message = DbErrorMessage
    [] OTHER -> FALSE

\* C2: in a batch that passed the batch validation, every file that failed
\* (empty title, invalid category, CDN error, no secure_url, insert failure)
\* has exactly one entry in errors with its originalname, its 0-based index
\* and the message, every other processed file is in uploaded_media, the loop
\* reaches the last file, and the response is 200 with success + failed = n,
\* success = |uploaded_media|, failed = |errors|.
C2_FailuresIsolated ==
  \A i \in AcceptedBatches :
    LET r == reqs[i]
        n == Len(r.files)
    IN /\ Len(r.fates) = r.idx
       /\ r.success = Len(r.uploaded)
       /\ r.failed = Len(r.errors)
       /\ r.success + r.failed = r.idx
       /\ \A k \in 1..r.idx :
            IF r.fates[k] = "ok"
            THEN ErrorsAt(r, k - 1) = {} /\ Cardinality(UploadedOf(r, r.files[k].originalname)) = 1
            ELSE /\ Cardinality(ErrorsAt(r, k - 1)) = 1
                 /\ UploadedOf(r, r.files[k].originalname) = {}
                 /\ \A e \in ErrorsAt(r, k - 1) :
                      /\ r.errors[e].filename = r.files[k].originalname
                      /\ MessageFits(r, k, r.errors[e].error)
       /\ r.pc = "done" =>
            /\ r.status = 200
            /\ r.idx = n
            /\ r.body = [success |-> r.success, failed |-> r.failed,
                         uploaded_media |-> r.uploaded, errors |-> r.errors]
       /\ r.pc # "done" => r.idx < n

\* Three files, each failed for a different reason after the first, and the
\* response is 200 with failed = 3.
C2_Witness ==
  \E i \in AcceptedBatches :
    /\ reqs[i].pc = "done" /\ reqs[i].status = 200
    /\ reqs[i].fates = <<"cdn", "title", "insert">>
    /\ reqs[i].success = 0 /\ reqs[i].failed = 3

\* ------------------------------------------------------------ C8
\* The media requests that carry a category path parameter.
CategoryRouted == {i \in DOMAIN reqs : /\ reqs[i].pc # "idle"
                                        /\ reqs[i].route \in {"random", "category"}
                                        /\ reqs[i].params.category.present}

Canonical(text) == ReplaceWsRuns(toLowerCase(text))

\* The files of a bulk upload whose title passed and whose category is refused.
RefusedCategories(r) ==
  {k \in 1..r.idx : trim(r.titles[k]) # <<>> /\ Canonical(trim(r.categories[k])) \notin ALLOWED_CATEGORIES}

UploadsOf(i, idx) == {u \in 1..Len(cdn.uploads) : cdn.uploads[u].req = i /\ cdn.uploads[u].index = idx}

\* C8: a media route with a category path parameter answers 400 without any
\* statement when the parameter is not an allowed category, and otherwise
\* filters by the canonical category. Bulk upload validates the trimmed
\* category of each file before the CDN upload and the INSERT: a refused
\* category sends the file to errors, with no upload and no statement for it,
\* and the response of the batch is 200, not 400.
C8_CategoryValidated ==
  /\ \A i \in CategoryRouted :
       LET r == reqs[i]
           c == Canonical(r.params.category.text)
       IN IF c \in ALLOWED_CATEGORIES
          THEN r.filter.byCategory /\ r.filter.category = c
          ELSE r.pc = "done" /\ r.status = 400 /\ r.stmts = 0
  /\ \A i \in AcceptedBatches :
       LET r == reqs[i]
       IN /\ \A k \in RefusedCategories(r) :
               /\ r.fates[k] = "category"
               /\ UploadsOf(i, k - 1) = {}
               /\ \E e \in ErrorsAt(r, k - 1) : startsWith(r.errors[e].error, InvalidCategoryText)
          /\ \A u \in 1..Len(cdn.uploads) :
               \E c \in ALLOWED_CATEGORIES : cdn.uploads[u].folder = <<"animepixels/">> \o c
          /\ r.stmts = Cardinality({k \in 1..r.idx : r.fates[k] \in {"ok", "insert"}})
          /\ (r.pc = "done" /\ RefusedCategories(r) # {}) => r.status = 200
  /\ \A j \in (Len(probe.media0) + 1)..Len(media) : media[j].category \in ALLOWED_CATEGORIES

\* A bulk upload with a refused category among its files was answered 200 with
\* the file in errors and the other files stored.
C8_Witness ==
  \E i \in AcceptedBatches :
    /\ reqs[i].pc = "done" /\ reqs[i].status = 200
    /\ RefusedCategories(reqs[i]) = {2}
    /\ reqs[i].success = 2

\* C8 as stated: every request with a refused category is answered 400.
C8_AsStated ==
  /\ \A i \in CategoryRouted :
       Canonical(reqs[i].params.category.text) \notin ALLOWED_CATEGORIES =>
         reqs[i].pc = "done" /\ reqs[i].status = 400 /\ reqs[i].stmts = 0
  /\ \A i \in AcceptedBatches :
       (reqs[i].pc = "done" /\ RefusedCategories(reqs[i]) # {}) => reqs[i].status = 400

\* ------------------------------------------------------------ C11
\* The requests that reached the body of the bulk-upload handler: authenticated,
\* read by multer, CDN configured.
RefusedBatches == {i \in BulkRequests : reqs[i].batch = "refused"}

\* What the batch validation must find, read off the request: the file count
\* and the lengths the fields have after normalization and replication.
LengthAfterReplication(field0, n) == IF Len(field0) = 1 /\ n > 1 THEN n ELSE Len(field0)

BatchInvalid(r) ==
  \/ Len(r.files) = 0
  \/ LengthAfterReplication(r.titles0, Len(r.files)) # Len(r.files)
  \/ LengthAfterReplication(r.categories0, Len(r.files)) # Len(r.files)
  \/ r.media_type \notin {"image", "gif"}

\* C11: a bulk-upload request with no file, with a titles or categories length
\* (after replication) different from the file count, or with a media_type
\* other than image and gif is answered 400, and none of its files is
\* processed: no CDN upload is started, no statement is run, no row is
\* inserted, nothing is counted or recorded. Every other batch is accepted.
C11_BatchRefused ==
  \A i \in BulkRequests :
    LET r == reqs[i]
    IN IF BatchInvalid(r)
       THEN /\ r.pc = "done" /\ r.status = 400
            /\ r.batch = "refused"
            /\ UploadsOf(i, r.idx) = {} /\ cdn.uploads = <<>>
            /\ r.stmts = 0 /\ media = probe.media0
            /\ r.idx = 0 /\ r.fates = <<>> /\ r.uploaded = <<>> /\ r.errors = <<>>
       ELSE r.batch = "accepted" /\ (r.pc = "done" => r.status = 200)

\* Three files with valid titles and categories and media_type video were
\* answered 400.
C11_Witness ==
  \E i \in RefusedBatches :
    /\ Len(reqs[i].files) = 3
    /\ Len(reqs[i].titles) = 3 /\ Len(reqs[i].categories) = 3
    /\ reqs[i].media_type = "video"
    /\ reqs[i].pc = "done" /\ reqs[i].status = 400

\* ------------------------------------------------------------ C12
\* The bulk-upload requests that passed authenticateAdmin and were read.
BulkStarted == {i \in AdminRequests : reqs[i].route = "bulk-upload" /\ reqs[i].pc \notin {"start", "handler"}
                                       /\ ExpectedRejection(reqs[i]) = 0}

\* C12: without CDN configuration an authenticated bulk-upload request is
\* answered 500 and nothing of the batch is processed: no field is normalized
\* or validated, no CDN upload is started, no statement is run, no row is
\* inserted.
C12_NotConfigured ==
  ~cdn.configured =>
    \A i \in BulkStarted :
      /\ reqs[i].pc = "done" /\ reqs[i].status = 500
      /\ "titles0" \notin DOMAIN reqs[i] /\ "fates" \notin DOMAIN reqs[i]
      /\ reqs[i].stmts = 0
      /\ cdn.uploads = <<>>
      /\ media = probe.media0

\* An authenticated bulk-upload request was answered 500 by the configuration
\* check.
C12_Witness ==
  /\ ~cdn.configured
  /\ \E i \in BulkStarted :
       /\ reqs[i].pc = "done" /\ reqs[i].status = 500
       /\ reqs[i].body = [error |-> "Cloudinary is not configured"]
       /\ logs.error = 1

\* ------------------------------------------------------------ C13
\* ---- the login route and the gated routes, with the tokens login issued
\* The first slot takes the login request, the other slots the requests that
\* present its token.
InitLogin == InitService({<<>>}, MaxReq + 1, {TRUE}) /\ proc = WarmProcess(TRUE, MaxReq + 1)

NextLogin ==
  \/ \E username \in Usernames : \E password \in Passwords : \E now \in LoginTimes :
       Login(1, username, password, now)
  \/ \E i \in DOMAIN reqs \ {1} : PresentIssued(i)
  \/ \E i \in DOMAIN reqs : AdminQuery(i)

SpecLogin == InitLogin /\ [][NextLogin]_vars

LoginRequests == {i \in DOMAIN reqs : reqs[i].pc # "idle" /\ reqs[i].route = "login"}
Presented == {i \in AdminRequests : reqs[i].header.token \in IssuedTokens}

Missing(field) == ~field.present \/ field.text = ""

\* C13: login answers 400 when username or password is missing, 401 without a
\* token when either differs from the configured credentials, and otherwise
\* 200 with a token whose claims are sub = username, is_admin = true and whose
\* expiry is the second of issuance plus 60 minutes; a gated route admits that
\* token before its expiry and answers 401 from its expiry on.
C13_Login ==
  /\ \A i \in LoginRequests :
       LET r == reqs[i]
       IN /\ r.pc = "done"
          /\ IF Missing(r.username) \/ Missing(r.password)
             THEN r.status = 400 /\ "token" \notin DOMAIN r.body
             ELSE IF r.username.text # "admin" \/ r.password.text # "password"
             THEN r.status = 401 /\ "token" \notin DOMAIN r.body
             ELSE /\ r.status = 200
                  /\ r.body.token.claims.sub = r.username.text
                  /\ r.body.token.claims.is_admin = "true"
                  /\ r.body.token.exp = r.at + 3600
                  /\ r.body.token.claims.exp = r.at + 3600
                  /\ ~SignatureInvalid([header |-> Header(BearerPrefix, r.body.token)])
  /\ \A i \in Presented :
       LET r == reqs[i]
       IN IF r.at < r.header.token.exp
          THEN r.admin = r.header.token.claims /\ (r.pc = "done" => r.status # 401 /\ r.status # 403)
          ELSE r.pc = "done" /\ r.status = 401 /\ r.admin = NoAdmin /\ r.stmts = 0

\* A token issued at second 1 was admitted one second before second 3601 by one
\* request and answered 401 at second 3601 by another.
C13_Witness ==
  \E i, j \in Presented :
    /\ reqs[i].header.token.exp = 3601 /\ reqs[j].header.token = reqs[i].header.token
    /\ reqs[i].at = 3600 /\ reqs[i].pc = "done" /\ reqs[i].status = 200
    /\ reqs[j].at = 3601 /\ reqs[j].pc = "done" /\ reqs[j].status = 401

\* ------------------------------------------------ pool, schema, connections
NotInitializedMessage == <<"D","a","t","a","b","a","s","e"," ","n","o","t"," ","i","n","i","t","i","a","l","i","z","e","d">>

\* A variant of initializeDatabase without the check for an existing pool.
initializeDatabaseUnguarded(p) ==
  IF ~p.url THEN [proc |-> [p EXCEPT !.inits = @ + 1], threw |-> TRUE]
  ELSE [proc |-> [p EXCEPT !.inits = @ + 1, !.pool = TRUE, !.pools = @ + 1], threw |-> FALSE]

\* initializeDatabase(): the process after the call, and whether it threw.
initializeDatabase(p) ==
  IF p.pool THEN [proc |-> [p EXCEPT !.inits = @ + 1], threw |-> FALSE]
  ELSE IF ~p.url THEN [proc |-> [p EXCEPT !.inits = @ + 1], threw |-> TRUE]
  ELSE [proc |-> [p EXCEPT !.inits = @ + 1, !.pool = TRUE, !.pools = @ + 1], threw |-> FALSE]

\* getConnection(): pool.connect() is called, or the Error it throws.
getConnection(p) ==
  IF ~p.pool THEN [ok |-> FALSE, message |-> NotInitializedMessage] ELSE [ok |-> TRUE, message |-> <<>>]

\* The routes by the way they reach the database: health and init-db check a
\* connection out themselves, tables stands for the routes that call query().
DbRoutes == {"health", "init-db", "tables"}

NewDbRequest(route) ==
  [pc |-> "start", route |-> route, op |-> "none", stmts |-> 0, status |-> 0, body |-> <<>>]

Environment(p) == IF p.production THEN "production" ELSE "development"

\* The body of the catch block of the route for an error message.
DbFailureBody(p, route, message) ==
  IF route = "health"
  THEN [status |-> "error", database |-> "disconnected", server |-> "running",
        environment |-> Environment(p), error |-> message]
  ELSE [error |-> message]

DbSuccessBody(p, route, rows) ==
  CASE route = "health" ->
         [status |-> "ok", database |-> "connected", server |-> "running", environment |-> Environment(p),
          total_media |-> TypeCounts(rows).total, images |-> TypeCounts(rows).images,
          gifs |-> TypeCounts(rows).gifs]
    [] route = "init-db" -> InitDbBody
    [] OTHER -> TablesBody(rows)

\* The handler of the route up to its first await: getConnection() throws, or
\* the handler waits for pool.connect().
HandlerStart(p, r) ==
  LET c == getConnection(p)
  IN IF c.ok THEN [r EXCEPT !.pc = "connect", !.op = "handler"]
     ELSE Respond(r, 500, DbFailureBody(p, r.route, c.message))

\* initializeDatabaseOnce() for request r, up to the first await of the
\* request: nothing when databaseInitialized; otherwise initializeDatabase()
\* and the start of createTables(); an error is caught and logged, and the
\* handler follows.
initializeDatabaseOnce(p, r) ==
  IF p.databaseInitialized THEN [proc |-> p, req |-> HandlerStart(p, r), logged |-> 0]
  ELSE LET init == initializeDatabase(p)
       IN IF init.threw
          THEN [proc |-> init.proc, req |-> HandlerStart(init.proc, r), logged |-> 1]
          ELSE LET q == [init.proc EXCEPT !.creates = @ + 1]
               IN IF getConnection(q).ok
                  THEN [proc |-> q, req |-> [r EXCEPT !.pc = "connect", !.op = "createTables"], logged |-> 0]
                  ELSE [proc |-> q, req |-> HandlerStart(q, r), logged |-> 1]

\* The connections the operation gives back after its statement: query() and
\* createTables() release in finally, init-db and health after the statement
\* returned.
Released(r, ok) ==
  IF r.op = "createTables" \/ r.route = "tables" THEN 1
  ELSE IF ok THEN 1 ELSE 0

LoggedErrors(r) == IF r.pc = "done" /\ r.status = 500 THEN 1 ELSE 0

\* A request arrives at slot i: the initialization middleware (for health, the
\* handler itself) calls initializeDatabaseOnce().
DbArrive(i, route) ==
  /\ reqs[i].pc = "idle"
  /\ LET once == initializeDatabaseOnce(proc, NewDbRequest(route))
     IN /\ proc' = once.proc
        /\ reqs' = [reqs EXCEPT ![i] = once.req]
        /\ logs' = [logs EXCEPT !.error = @ + once.logged + LoggedErrors(once.req)]
  /\ UNCHANGED <<probe, media, incs, cdn>>

\* pool.connect() of request i resolves with a connection, or rejects.
DbConnect(i) ==
  /\ reqs[i].pc = "connect"
  /\ \/ /\ proc' = [proc EXCEPT !.held[i] = @ + 1]
        /\ reqs' = [reqs EXCEPT ![i].pc = "stmt"]
        /\ UNCHANGED <<probe, media, incs, logs, cdn>>
     \/ /\ LET r == IF reqs[i].op = "createTables" THEN HandlerStart(proc, reqs[i])
                    ELSE Respond(reqs[i], 500, DbFailureBody(proc, reqs[i].route, DbErrorMessage))
           IN /\ reqs' = [reqs EXCEPT ![i] = r]
              /\ logs' = [logs EXCEPT !.error = @ + (IF reqs[i].op = "createTables" THEN 1 ELSE 0)
                                                  + LoggedErrors(r)]
        /\ UNCHANGED <<proc, probe, media, incs, cdn>>

\* conn.query() of request i returns, or throws.
DbStatement(i) ==
  /\ reqs[i].pc = "stmt"
  /\ \E ok \in BOOLEAN :
       LET counted == [reqs[i] EXCEPT !.stmts = @ + 1]
           p == [proc EXCEPT !.held[i] = @ - Released(reqs[i], ok),
                             !.databaseInitialized = @ \/ (ok /\ reqs[i].op = "createTables")]
           r == IF reqs[i].op = "createTables" THEN HandlerStart(p, counted)
                ELSE IF ok THEN Respond(counted, 200, DbSuccessBody(p, counted.route, media))
                ELSE Respond(counted, 500, DbFailureBody(p, counted.route, DbErrorMessage))
       IN /\ proc' = p
          /\ reqs' = [reqs EXCEPT ![i] = r]
          /\ logs' = [logs EXCEPT !.error = @ + (IF reqs[i].op = "createTables" /\ ~ok THEN 1 ELSE 0)
                                              + LoggedErrors(r)]
  /\ UNCHANGED <<probe, media, incs, cdn>>

\* ---- a process from its start, with concurrent requests
InitDb ==
  /\ InitService({<<>>, [i \in DOMAIN RowKindList |-> MakeRow(RowKindList[i], i)]}, MaxReq, {TRUE})
  /\ proc \in {ColdProcess(production, url, MaxReq) : production \in BOOLEAN, url \in BOOLEAN}

NextDb ==
  \/ \E i \in DOMAIN reqs : \E route \in DbRoutes : DbArrive(i, route)
  \/ \E i \in DOMAIN reqs : DbConnect(i)
  \/ \E i \in DOMAIN reqs : DbStatement(i)

SpecDb == InitDb /\ [][NextDb]_vars

\* ------------------------------------------------------------ C19
DbRequests == {i \in DOMAIN reqs : reqs[i].pc # "idle"}
NotInitializedAnswers ==
  {i \in DbRequests : reqs[i].pc = "done" /\ reqs[i].status = 500 /\ reqs[i].body.error = NotInitializedMessage}

C19_State ==
  /\ proc.pools <= 1
  /\ proc.pool <=> proc.pools = 1
  /\ ~proc.url => ~proc.pool /\ \A i \in DbRequests : i \in NotInitializedAnswers
  /\ \A i \in NotInitializedAnswers : ~proc.pool /\ proc.held[i] = 0 /\ reqs[i].stmts = 0
  /\ \A i \in DbRequests : reqs[i].pc \in {"connect", "stmt"} => proc.pool

C19_Step ==
  /\ proc.pool => proc'.pool /\ proc'.pools = proc.pools
  /\ proc'.pool /\ ~proc.pool => proc.url /\ proc'.inits = proc.inits + 1

\* C19: the pool is created at most once, a call of initializeDatabase with a
\* pool in place changes nothing, without DATABASE_URL no pool is ever created,
\* and a handler that asks for a connection while there is no pool is answered
\* 'Database not initialized' with no pool created and no statement run.
C19_PoolOnce == []C19_State /\ [][C19_Step]_vars

\* initializeDatabase was called by two requests and there is one pool, used by
\* a request answered 200.
C19_Witness ==
  /\ proc.inits >= 2 /\ proc.pools = 1
  /\ \E i \in DbRequests : reqs[i].pc = "done" /\ reqs[i].status = 200

\* ------------------------------------------------------------ C17
\* C17 as stated: every connection an operation checked out is released on
\* every exit path, so a request that has completed, also one whose statement
\* failed, holds no connection; for query(), createTables(), init-db and
\* health.
C17_AsStated ==
  \A i \in DbRequests : reqs[i].pc = "done" => proc.held[i] = 0

\* ------------------------------------------------------------ C18
\* C18 as stated: createTables is started at most once per process, whatever
\* the number of requests and also when they arrive before the first
\* initialization has completed, and never again once databaseInitialized is
\* true.
C18_AsStated ==
  /\ [](proc.creates <= 1)
  /\ [][proc.databaseInitialized => proc'.creates = proc.creates]_vars

\* ------------------------------------------------------------ C14
\* The requests of the routes whose catch block answers for a database error.
QueryRouted ==
  {i \in DOMAIN reqs : /\ reqs[i].pc = "done"
                       /\ reqs[i].route \in {"all", "random", "byid", "search", "category",
                                             "init-db", "stats", "tables"}}

\* C14 as stated: in production no 500 response carries the raw error message:
\* the routes answer a database error with a generic message, and so does the
\* global error handler.
C14_AsStated ==
  proc.production =>
    /\ \A i \in QueryRouted : reqs[i].status = 500 => reqs[i].body.error # DbErrorMessage
    /\ \A i \in DOMAIN reqs :
         (reqs[i].pc = "done" /\ reqs[i].status = 500 /\ "message" \in DOMAIN reqs[i].body)
           => reqs[i].body.message = "An error occurred"

\* ------------------------------------------------------------ C15
\* The rows inserted since the start of the run.
InsertedIds == (Len(probe.media0) + 1)..Len(media)

\* The row is the one request i inserted for a file of its batch, and its url
\* is the URL the CDN returned for the upload of that file.
InsertedFor(i, row) ==
  /\ reqs[i].route = "bulk-upload" /\ reqs[i].pc \in {"upload", "insert", "done"}
  /\ "uploaded" \in DOMAIN reqs[i]
  /\ \E m \in 1..Len(reqs[i].uploaded) : \E n \in 1..Len(cdn.uploads) :
       LET item == reqs[i].uploaded[m]
           call == cdn.uploads[n]
       IN /\ [item.media EXCEPT !.views = row.views] = row
          /\ row.url = <<"cdn", n>>
          /\ call.req = i
          /\ reqs[i].files[call.index + 1].originalname = item.filename
          /\ call.folder = <<"animepixels/">> \o row.category

\* C15: every row of the table has a category of the allow-list, media_type
\* image or gif and a non-empty title without surrounding whitespace, and every
\* row inserted by the API has the URL the CDN returned for the upload of its
\* file.
C15_RowsValid ==
  /\ \A j \in 1..Len(media) :
       /\ media[j].category \in ALLOWED_CATEGORIES
       /\ media[j].media_type \in {"image", "gif"}
       /\ media[j].title # <<>> /\ trim(media[j].title) = media[j].title
  /\ \A j \in InsertedIds : \E i \in DOMAIN reqs : InsertedFor(i, media[j])

\* A row was inserted for a file sent with a padded title and a padded,
\* capitalized category.
C15_Witness ==
  \E j \in InsertedIds : \E i \in DOMAIN reqs :
    /\ InsertedFor(i, media[j])
    /\ media[j].category = OnePiece /\ media[j].title = <<"b">>
    /\ \E k \in 1..Len(reqs[i].files) :
         reqs[i].titles[k] = <<" ", "b", " ">> /\ reqs[i].categories[k] = PaddedOnePiece

\* ---- uploads and by-id reads at the same time
\* The batches sent: two files, titles one of them padded, a category for the
\* batch or one per file, one of these refused.
WriteInputs ==
  {[files |-> <<File(1, "image/png"), File(2, "image/png")>>,
    titles |-> ArrField(<<<<"a">>, <<" ", "b", " ">>>>), categories |-> c, media_type |-> "image"] :
     c \in {StrField(PaddedOnePiece), ArrField(<<Bleach, Naruto>>)}}

\* The slots that send batches, two at a time; every slot reads by id.
UploadSlots == {1, 2} \cap DOMAIN reqs

InitWrites == InitService(AppTables, MaxReq, {TRUE}) /\ proc = WarmProcess(TRUE, MaxReq)

NextWrites ==
  \/ \E i \in UploadSlots : AdminArrive(i, "bulk-upload", Header(BearerPrefix, AdminToken), TokenExp - 1)
  \/ \E i \in UploadSlots : \E input \in WriteInputs : BulkBegin(i, input)
  \/ \E i \in DOMAIN reqs : CdnAnswer(i)
  \/ \E i \in DOMAIN reqs : ExecInsert(i)
  \/ \E i \in DOMAIN reqs : \E rq \in ViewRequests : MediaBegin(i, rq)
  \/ \E i \in DOMAIN reqs : ExecSelect(i)
  \/ \E k \in DOMAIN incs : ExecIncrement(k)

SpecWrites == InitWrites /\ [][NextWrites]_vars

\* ------------------------------------------------------------ C16
C16_Step ==
  /\ Len(media') >= Len(media)
  /\ \A j \in 1..Len(media) :
       /\ media'[j].views \in {media[j].views, media[j].views + 1}
       /\ [media'[j] EXCEPT !.views = media[j].views] = media[j]

\* C16: no step of any operation removes a row, lowers the views of a row or
\* changes another field of a row the table holds; a step changes an existing
\* row at most by views = views + 1.
C16_RowsKept == [][C16_Step]_vars

\* A by-id read counted a view of a row an upload inserted, while that upload
\* was still at work on its next file.
C16_Witness ==
  \E j \in InsertedIds : \E i \in DOMAIN reqs :
    /\ media[j].views = 1
    /\ InsertedFor(i, media[j])
    /\ reqs[i].pc \in {"upload", "insert"}

\* ------------------------------------------------------------ C20
\* The upload calls of request i, by their position among all the calls made.
CallsOf(i) == {n \in 1..Len(cdn.uploads) : cdn.uploads[n].req = i}

\* The position in the batch of the file of that name.
PositionOf(r, name) == CHOOSE k \in 1..Len(r.files) : r.files[k].originalname = name

\* The file at 0-based index k of request r has had its row inserted or has
\* been recorded in errors.
Settled(r, k) ==
  /\ k < Len(r.fates)
  /\ IF r.fates[k + 1] = "ok" THEN UploadedOf(r, r.files[k + 1].originalname) # {}
     ELSE ErrorsAt(r, k) # {}

C20_State ==
  \A i \in AcceptedBatches :
    LET r == reqs[i] IN
    \* an upload call was made for a file only after every file before it
    \* was settled, once for a file, and in batch order
    /\ \A n \in CallsOf(i) :
         /\ \A k \in 0..(cdn.uploads[n].index - 1) : Settled(r, k)
         /\ \/ Settled(r, cdn.uploads[n].index)
            \/ /\ r.pc \in {"upload", "insert"}
               /\ r.idx = cdn.uploads[n].index /\ Len(r.fates) = r.idx
    /\ \A n, m \in CallsOf(i) : n < m => cdn.uploads[n].index < cdn.uploads[m].index
    \* at most one upload of the batch is in flight
    /\ Cardinality({n \in CallsOf(i) : ~Settled(r, cdn.uploads[n].index)}) <= 1
    /\ r.pc = "upload" => \E n \in CallsOf(i) : cdn.uploads[n].index = r.idx
    \* both lists are in batch order
    /\ \A a, b \in 1..Len(r.errors) : a < b => r.errors[a].index < r.errors[b].index
    /\ \A a, b \in 1..Len(r.uploaded) :
         a < b => PositionOf(r, r.uploaded[a].filename) < PositionOf(r, r.uploaded[b].filename)

\* A step that starts an upload of a batch finds no other upload of that batch
\* unsettled.
C20_Step ==
  \A i \in DOMAIN reqs :
    (i \in AcceptedBatches /\ Len(cdn'.uploads) > Len(cdn.uploads) /\ cdn'.uploads[Len(cdn'.uploads)].req = i)
      => /\ Len(cdn'.uploads) = Len(cdn.uploads) + 1
         /\ \A n \in CallsOf(i) : cdn.uploads[n].index < Len(reqs'[i].fates)
         /\ cdn'.uploads[Len(cdn'.uploads)].index = Len(reqs'[i].fates)

\* C20: the files of a batch are processed one after the other in batch
\* order: the upload of a file starts only after every file before it has had
\* its row inserted or has been recorded in errors, at most one upload of the
\* batch is in flight, and uploaded_media and errors are in batch order.
C20_Sequential == []C20_State /\ [][C20_Step]_vars

\* Two batches at work at the same time, each waiting for the upload of its
\* second file after its first file was settled, one inserted and one failed.
C20_Witness ==
  \E i, j \in AcceptedBatches :
    /\ i # j
    /\ reqs[i].pc = "upload" /\ reqs[i].idx = 1 /\ reqs[i].fates = <<"ok">>
    /\ reqs[j].pc = "upload" /\ reqs[j].idx = 1 /\ reqs[j].fates = <<"cdn">>

\* ------------------------------------------------------------ C21
\* The rows of the table that request r inserted for the file at position k of
\* its batch.
RowsOfFile(i, k) ==
  {j \in InsertedIds :
     /\ InsertedFor(i, media[j])
     /\ \E m \in 1..Len(reqs[i].uploaded) :
          /\ reqs[i].uploaded[m].media.id = j
          /\ reqs[i].uploaded[m].filename = reqs[i].files[k].originalname}

C21_State ==
  /\ \A j \in InsertedIds : \E i \in AcceptedBatches : InsertedFor(i, media[j])
  /\ \A i \in AcceptedBatches :
       LET r == reqs[i] IN
       /\ Cardinality({j \in InsertedIds : InsertedFor(i, media[j])}) = r.success
       /\ r.success = Len(r.uploaded)
       /\ \A k \in 1..Len(r.files) :
            Cardinality(RowsOfFile(i, k)) = IF k <= Len(r.fates) /\ r.fates[k] = "ok" THEN 1 ELSE 0
       /\ \A k \in 1..Len(r.fates) : r.fates[k] = "insert" => ErrorsAt(r, k - 1) # {}

\* A step that adds to the table adds one row, for a request whose upload has
\* returned a URL, with that URL, and counts one success of that request.
C21_Step ==
  media' # media /\ Len(media') # Len(media) =>
    /\ Len(media') = Len(media) + 1
    /\ \E i \in AcceptedBatches :
         /\ reqs[i].pc = "insert"
         /\ reqs[i].secureUrl = <<"cdn", CHOOSE n \in CallsOf(i) : \A m \in CallsOf(i) : m <= n>>
         /\ media'[Len(media')].url = reqs[i].secureUrl
         /\ reqs'[i].success = reqs[i].success + 1
         /\ \A o \in DOMAIN reqs \ {i} : reqs'[o] = reqs[o]

\* C21: rows are added only by the INSERT of a bulk upload, one for a file,
\* after the CDN upload of that file returned a URL; the rows a batch has
\* inserted are as many as its success count; a file whose upload returned a
\* URL has its row in the table when its INSERT succeeded, and no row and an
\* errors entry when its INSERT failed.
C21_RowsByUpload == []C21_State /\ [][C21_Step]_vars

\* A batch was answered after the uploads of two files returned a URL, one
\* INSERT succeeded and one failed: one row was added.
C21_Witness ==
  \E i \in AcceptedBatches :
    /\ reqs[i].pc = "done" /\ reqs[i].fates = <<"ok", "insert">>
    /\ reqs[i].success = 1 /\ Len(media) = Len(probe.media0) + 1

\* C21 as stated: when the response of a batch is sent, every file whose CDN
\* upload returned a URL has a row in the table.
C21_AsStated ==
  \A i \in AcceptedBatches :
    reqs[i].pc = "done" =>
      \A k \in 1..Len(reqs[i].fates) : reqs[i].fates[k] \in {"ok", "insert"} => RowsOfFile(i, k) # {}

\* ------------------------------------------------------------ C22
\* The by-id requests answered, and those of them answered 400 or 404.
ByIdAnswered == {i \in DOMAIN reqs : reqs[i].pc = "done" /\ reqs[i].route = "byid"}
ByIdRefused == {i \in ByIdAnswered : reqs[i].status \in {400, 404}}

\* The rows of the table a by-id request for that id and type would return.
Fetchable(id, type) ==
  {j \in 1..Len(media) : media[j].id = id /\ media[j].visible /\ media[j].media_type = type}

C22_State ==
  \* a request answered 400 ran no statement, one answered 404 asked for a
  \* row that is absent, hidden or of the other type; neither started an
  \* increment
  /\ \A i \in ByIdRefused :
       /\ incs[i].st = "none"
       /\ reqs[i].status = 400 => reqs[i].stmts = 0
       /\ reqs[i].status = 404 => reqs[i].stmts = 1 /\ Fetchable(reqs[i].filter.id, reqs[i].type) = {}
  \* the views of a row have grown by the increments of the requests that
  \* were answered 200 with that row
  /\ \A j \in 1..Len(media) :
       media[j].views = probe.media0[j].views
         + Cardinality({k \in ByIdAnswered : /\ reqs[k].status = 200 /\ reqs[k].body.id = media[j].id
                                              /\ incs[k].st = "done" /\ incs[k].id = media[j].id})
  \* with no request answered 200 the table is as it was
  /\ (\A i \in ByIdAnswered : reqs[i].status # 200) => media = probe.media0

\* A step that changes the table is the increment of a request answered 200,
\* and changes the views of the row that request returned, and nothing else.
C22_Step ==
  media' # media =>
    \E k \in ByIdAnswered :
      /\ reqs[k].status = 200 /\ incs[k].st = "pending" /\ incs'[k].st = "done"
      /\ Len(media') = Len(media)
      /\ \A j \in 1..Len(media) :
           media'[j] = IF media[j].id = reqs[k].body.id THEN [media[j] EXCEPT !.views = @ + 1] ELSE media[j]

\* C22: a by-id request changes views only when it answers 200, and then only
\* of the row it returned; a request answered 400 or 404 starts no increment
\* and changes the views of no row.
C22_ViewsFrame == []C22_State /\ [][C22_Step]_vars

\* One request was answered 404 for a hidden row and one 200 for a visible
\* row; the increment of the second has run, the hidden row's views are as
\* they were.
C22_Witness ==
  \E i, k \in ByIdAnswered :
    /\ reqs[i].status = 404 /\ incs[i].st = "none"
    /\ \E j \in 1..Len(media) :
         media[j].id = reqs[i].filter.id /\ ~media[j].visible /\ media[j].views = probe.media0[j].views
    /\ reqs[k].status = 200 /\ incs[k].st = "done"
    /\ \E j \in 1..Len(media) :
         media[j].id = reqs[k].body.id /\ media[j].views = probe.media0[j].views + 1
====
